---- MODULE Spec2Model ----
(***************************************************************************)
(* Model of the Gesellschafterliste parser (src/src/pdf_parser.py), the    *)
(* database (src/src/models.py), the downloader's file names and rate      *)
(* limiter (src/src/dk_downloader.py) and the pipeline                     *)
(* (src/src/pipeline.py).                                                  *)
(*                                                                         *)
(* A Python str is a sequence of one-character strings.  None and the      *)
(* empty string are both the empty sequence wherever the code only tests   *)
(* truthiness.  A float is a reduced decimal fraction num/den.             *)
(***************************************************************************)
EXTENDS Integers, Sequences, FiniteSets, TLC

VARIABLES pc, path_exists, n_pages, page, text_buf, full_text, shareholders,
          collab_calls, caught, result, arg, out, db, files, run, downloader,
          history, limiter, now

vars == <<pc, path_exists, n_pages, page, text_buf, full_text, shareholders,
          collab_calls, caught, result, arg, out, db, files, run, downloader,
          history, limiter, now>>

parse_vars == <<pc, path_exists, n_pages, page, text_buf, full_text,
                shareholders, collab_calls, caught, result>>

limiter_vars == <<limiter, now>>

pipeline_vars == <<files, run, downloader, history, limiter_vars>>

(***************************************************************************)
(* Characters and str methods                                              *)
(***************************************************************************)
Lowers == <<"a", "b", "c", "d", "e", "f", "g", "h", "i", "j", "k", "l", "m",
            "n", "o", "p", "q", "r", "s", "t", "u", "v", "w", "x", "y", "z",
            "ä", "ö", "ü">>

Uppers == <<"A", "B", "C", "D", "E", "F", "G", "H", "I", "J", "K", "L", "M",
            "N", "O", "P", "Q", "R", "S", "T", "U", "V", "W", "X", "Y", "Z",
            "Ä", "Ö", "Ü">>

Digits == <<"0", "1", "2", "3", "4", "5", "6", "7", "8", "9">>

Range(f) == {f[i] : i \in DOMAIN f}

LowerSet == Range(Lowers)

UpperSet == Range(Uppers)

DigitSet == Range(Digits)

\* str.isspace() / the regex class \s
SpaceSet == {" ", "\n", "\t"}

IndexIn(f, c) == CHOOSE i \in DOMAIN f : f[i] = c

\* str.upper() of one character; the sharp s becomes two characters
UpperChar(c) ==
    IF c \in LowerSet THEN <<Uppers[IndexIn(Lowers, c)]>>
    ELSE IF c = "ß" THEN <<"S", "S">>
    ELSE <<c>>

\* str.lower() of one character
LowerChar(c) ==
    IF c \in UpperSet THEN <<Lowers[IndexIn(Uppers, c)]>> ELSE <<c>>

\* v bound to a name in F: the value is computed once
Let(v, F(_)) == F(v)

\* the concatenation F(lo) \o ... \o F(hi), by halving the range
RECURSIVE ConcatMap(_, _, _)
ConcatMap(F(_), lo, hi) ==
    IF lo > hi THEN <<>>
    ELSE IF lo = hi THEN F(lo)
    ELSE ConcatMap(F, lo, (lo + hi) \div 2)
         \o ConcatMap(F, (lo + hi) \div 2 + 1, hi)

\* the least and the greatest element of a non-empty set of integers
Least(S) == CHOOSE i \in S : \A j \in S : i <= j

Greatest(S) == CHOOSE i \in S : \A j \in S : i >= j

Upper(s) == ConcatMap(LAMBDA i : UpperChar(s[i]), 1, Len(s))

Lower(s) == [i \in DOMAIN s |-> LowerChar(s[i])[1]]

\* the Python operator `sub in s`
Contains(s, sub) ==
    \E i \in 1..(Len(s) - Len(sub) + 1) : SubSeq(s, i, i + Len(sub) - 1) = sub

\* str.strip()
Strip(s) ==
    IF \A i \in DOMAIN s : s[i] \in SpaceSet THEN <<>>
    ELSE SubSeq(s, Least({i \in DOMAIN s : s[i] \notin SpaceSet}),
                   Greatest({i \in DOMAIN s : s[i] \notin SpaceSet}))

\* str.rstrip(',')
RStripComma(s) ==
    IF \A i \in DOMAIN s : s[i] = "," THEN <<>>
    ELSE SubSeq(s, 1, Greatest({i \in DOMAIN s : s[i] # ","}))

\* str.replace(old, new) for a one-character old
Replace(s, old, new) ==
    ConcatMap(LAMBDA i : IF s[i] = old THEN new ELSE <<s[i]>>, 1, Len(s))

\* len(s.split()): the number of maximal runs of non-whitespace characters
WordCount(s) ==
    Cardinality({i \in 1..Len(s) :
        /\ s[i] \notin SpaceSet
        /\ (i = 1 \/ s[i - 1] \in SpaceSet)})

\* sep.join(parts)
RECURSIVE Join(_, _)
Join(parts, sep) ==
    IF parts = <<>> THEN <<>>
    ELSE IF Len(parts) = 1 THEN parts[1]
    ELSE parts[1] \o sep \o Join(Tail(parts), sep)

(***************************************************************************)
(* Regular expressions (module re): backtracking search.  Ends(p, s, i)    *)
(* lists, in the order the backtracking matcher tries them, the positions  *)
(* at which a match of node p that starts at position i of s can end.      *)
(***************************************************************************)
Cls(cs) == [t |-> "cls", neg |-> FALSE, cs |-> cs]

NotCls(cs) == [t |-> "cls", neg |-> TRUE, cs |-> cs]

Lit(c) == Cls({c})

Cat(ps) == [t |-> "cat", ps |-> ps]

Alt(ps) == [t |-> "alt", ps |-> ps]

\* greedy repetition {lo,hi}; hi = -1 is unbounded
Rep(p, lo, hi) == [t |-> "rep", p |-> p, lo |-> lo, hi |-> hi]

Plus(p) == Rep(p, 1, -1)

Star(p) == Rep(p, 0, -1)

Opt(p) == Rep(p, 0, 1)

\* ^ and $ under re.MULTILINE
Bol == [t |-> "bol"]

Eol == [t |-> "eol"]

LitStr(s) == [i \in DOMAIN s |-> Lit(s[i])]

Word(s) == Cat(LitStr(s))

RECURSIVE Ends(_, _, _)
RECURSIVE CatEnds(_, _, _, _)
RECURSIVE RepEnds(_, _, _, _)

Ends(p, s, i) ==
    CASE p.t = "cls" ->
           IF i <= Len(s) /\ ((s[i] \in p.cs) # p.neg) THEN <<i + 1>> ELSE <<>>
      [] p.t = "bol" -> IF i = 1 \/ s[i - 1] = "\n" THEN <<i>> ELSE <<>>
      [] p.t = "eol" -> IF i = Len(s) + 1 \/ s[i] = "\n" THEN <<i>> ELSE <<>>
      [] p.t = "cat" -> CatEnds(p.ps, 1, s, i)
      [] p.t = "alt" ->
           ConcatMap(LAMBDA k : Ends(p.ps[k], s, i), 1, Len(p.ps))
      [] p.t = "rep" -> RepEnds(p, 0, s, i)

\* the parts ps[k..] in a row from position i: every end of ps[k], in
\* order, followed by every way to go on from it
CatEnds(ps, k, s, i) ==
    IF k > Len(ps) THEN <<i>>
    ELSE Let(Ends(ps[k], s, i), LAMBDA es :
             ConcatMap(LAMBDA j : CatEnds(ps, k + 1, s, es[j]), 1, Len(es)))

\* a repeated character class: the longest run first, then each shorter one
ClsRepEnds(p, s, i) ==
    Let(CHOOSE k \in 0..(IF p.hi = -1 THEN Len(s) + 1 - i ELSE p.hi) :
            /\ \A j \in i..(i + k - 1) :
                   j <= Len(s) /\ ((s[j] \in p.p.cs) # p.p.neg)
            /\ \/ k = (IF p.hi = -1 THEN Len(s) + 1 - i ELSE p.hi)
               \/ i + k > Len(s)
               \/ (s[i + k] \in p.p.cs) = p.p.neg,
        LAMBDA longest :
            [k \in 1..(longest - p.lo + 1) |-> i + longest + 1 - k])

\* after n repetitions: one more (greedy) before stopping here; an empty
\* repetition is not repeated
RepEnds(p, n, s, i) ==
    IF p.p.t = "cls" /\ n = 0 THEN ClsRepEnds(p, s, i)
    ELSE Let(IF p.hi = -1 \/ n < p.hi THEN Ends(p.p, s, i) ELSE <<>>,
             LAMBDA es :
                 ConcatMap(LAMBDA j : IF es[j] = i THEN <<>>
                                      ELSE RepEnds(p, n + 1, s, es[j]),
                           1, Len(es)))
         \o (IF n >= p.lo THEN <<i>> ELSE <<>>)

(***************************************************************************)
(* A pattern is a sequence of parts, each a node that is or is not a       *)
(* capturing group.  A match is the sequence of the part boundaries it     *)
(* chose: <<start, end of part 1, ..., end of last part>>.                 *)
(***************************************************************************)
Grp(p) == [p |-> p, cap |-> TRUE]

NoGrp(p) == [p |-> p, cap |-> FALSE]

RECURSIVE PartMatches(_, _, _, _)
PartMatches(parts, k, s, bounds) ==
    IF k > Len(parts) THEN <<bounds>>
    ELSE Let(Ends(parts[k].p, s, bounds[Len(bounds)]), LAMBDA es :
             ConcatMap(LAMBDA j : PartMatches(parts, k + 1, s,
                                              Append(bounds, es[j])),
                       1, Len(es)))

NoMatch == <<>>

\* pattern.match at position i: the first match the matcher finds, or NoMatch
MatchAt(parts, s, i) ==
    Let(PartMatches(parts, 1, s, <<i>>), LAMBDA ms :
        IF ms = <<>> THEN NoMatch ELSE ms[1])

\* re.search from position i on: the leftmost match, or NoMatch
SearchFrom(parts, s, i) ==
    Let([j \in i..(Len(s) + 1) |-> MatchAt(parts, s, j)], LAMBDA ms :
        IF \A j \in DOMAIN ms : ms[j] = NoMatch THEN NoMatch
        ELSE ms[Least({j \in DOMAIN ms : ms[j] # NoMatch})])

Search(parts, s) == SearchFrom(parts, s, 1)

\* the captured groups of a match, in order
Groups(parts, s, m) ==
    ConcatMap(LAMBDA k : IF parts[k].cap
                           THEN <<SubSeq(s, m[k], m[k + 1] - 1)>> ELSE <<>>,
              1, Len(parts))

\* pattern.findall: the groups of the non-overlapping matches, left to right
RECURSIVE FindAllFrom(_, _, _)
FindAllFrom(parts, s, i) ==
    Let(SearchFrom(parts, s, i), LAMBDA m :
        IF m = NoMatch THEN <<>>
        ELSE <<Groups(parts, s, m)>>
             \o FindAllFrom(parts, s, IF m[Len(m)] = m[1] THEN m[1] + 1
                                      ELSE m[Len(m)]))

FindAll(parts, s) == FindAllFrom(parts, s, 1)

(***************************************************************************)
(* GesellschafterlisteParser: class constants                              *)
(***************************************************************************)
UpperClass == UpperSet

LowerClass == LowerSet \cup {"ß"}

D == Cls(DigitSet)

Ws == Star(Cls(SpaceSet))

Ws1 == Plus(Cls(SpaceSet))

\* [A-ZÄÖÜ][a-zäöüß]+
CapWord == Cat(<<Cls(UpperClass), Plus(Cls(LowerClass))>>)

\* [A-ZÄÖÜ][a-zäöüß]+(?:\s+[A-ZÄÖÜ][a-zäöüß]+)+
FullName == Cat(<<CapWord, Plus(Cat(<<Ws1, CapWord>>))>>)

\* \d{2}\.\d{2}\.\d{4}
Date == Cat(<<Rep(D, 2, 2), Lit("."), Rep(D, 2, 2), Lit("."), Rep(D, 4, 4)>>)

PATTERN_NAMES == <<<<"s", "t", "a", "n", "d", "a", "r", "d", "_", "b", "i", "r", "t", "h">>, <<"n", "a", "m", "e", "_", "f", "i", "r", "s", "t">>, <<"n", "u", "m", "b", "e", "r", "e", "d", "_", "g", "e", "b">>,
                   <<"n", "a", "m", "e", "_", "s", "h", "a", "r", "e">>, <<"n", "a", "m", "e", "_", "o", "n", "l", "y">>>>

PATTERNS == <<
    \* standard_birth
    <<Grp(CapWord), NoGrp(Cat(<<Lit(","), Ws>>)),
      Grp(Cat(<<CapWord, Opt(Cat(<<Ws1, CapWord>>))>>)),
      NoGrp(Cat(<<Lit(","), Ws>>)),
      Grp(Plus(NotCls({",", "*"}))),
      NoGrp(Cat(<<Lit(","), Ws, Lit("*"), Ws>>)), Grp(Date)>>,
    \* name_first
    <<Grp(FullName), NoGrp(Cat(<<Lit(","), Ws>>)),
      Grp(Plus(NotCls({",", "*"}))),
      NoGrp(Cat(<<Lit(","), Ws, Lit("*"), Ws>>)), Grp(Date)>>,
    \* numbered_geb
    <<NoGrp(Cat(<<Plus(D), Lit("."), Ws>>)), Grp(FullName),
      NoGrp(Cat(<<Opt(Lit(",")), Ws, Word(<<"g", "e", "b", ".">>), Ws>>)), Grp(Date)>>,
    \* name_share
    <<Grp(FullName), NoGrp(Ws1),
      Grp(Cat(<<Plus(D), Opt(Cat(<<Cls({".", ","}), Plus(D)>>))>>)),
      NoGrp(Ws), Grp(Alt(<<Lit("%"), Word(<<"E", "U", "R">>), Lit("€")>>))>>,
    \* name_only
    <<NoGrp(Bol),
      Grp(Cat(<<CapWord, Rep(Cat(<<Ws1, CapWord>>), 1, 3)>>)),
      NoGrp(Eol)>>
>>

LEGAL_ENTITY_MARKERS == <<
    <<"G", "m", "b", "H">>, <<"A", "G">>, <<"K", "G">>, <<"S", "E">>, <<"U", "G">>, <<"O", "H", "G">>, <<"e", ".", "V", ".">>, <<"e", ".", " ", "V", ".">>,
    <<"S", "t", "i", "f", "t", "u", "n", "g">>, <<"L", "t", "d", ".">>, <<"B", ".", "V", ".">>, <<"S", ".", "A", ".">>, <<"S", ".", "L", ".">>, <<"I", "n", "c", ".">>, <<"C", "o", "r", "p", ".">>,
    <<"H", "o", "l", "d", "i", "n", "g">>, <<"B", "e", "t", "e", "i", "l", "i", "g", "u", "n", "g", "s">>, <<"V", "e", "r", "w", "a", "l", "t", "u", "n", "g", "s">>, <<"&", " ", "C", "o", ".">>, <<"m", "b", "H">>,
    <<"K", "o", "m", "m", "a", "n", "d", "i", "t", "g", "e", "s", "e", "l", "l", "s", "c", "h", "a", "f", "t">>, <<"A", "k", "t", "i", "e", "n", "g", "e", "s", "e", "l", "l", "s", "c", "h", "a", "f", "t">>, <<"G", "e", "n", "o", "s", "s", "e", "n", "s", "c", "h", "a", "f", "t">>,
    <<"G", "b", "R">>, <<"P", "a", "r", "t", "G">>, <<"E", "W", "I", "V">>, <<"K", "G", "a", "A">>, <<"V", "V", "a", "G">>>>

NON_PERSON_MARKERS == <<
    <<"G", "e", "s", "c", "h", "ä", "f", "t", "s", "a", "n", "t", "e", "i", "l">>, <<"S", "t", "a", "m", "m", "k", "a", "p", "i", "t", "a", "l">>, <<"N", "e", "n", "n", "b", "e", "t", "r", "a", "g">>, <<"l", "a", "u", "f", "e", "n", "d", "e">>,
    <<"N", "u", "m", "m", "e", "r">>, <<"B", "e", "t", "r", "a", "g">>, <<"L", "i", "s", "t", "e">>, <<"G", "e", "s", "e", "l", "l", "s", "c", "h", "a", "f", "t", "e", "r">>, <<"i", "n", "s", "g", "e", "s", "a", "m", "t">>,
    <<"S", "u", "m", "m", "e">>, <<"E", "U", "R">>, <<"A", "n", "t", "e", "i", "l">>, <<"V", "e", "r", "ä", "n", "d", "e", "r", "u", "n", "g">>>>

NAME_HEADERS == <<<<"n", "a", "m", "e">>, <<"g", "e", "s", "e", "l", "l", "s", "c", "h", "a", "f", "t", "e", "r">>, <<"v", "o", "r", "-", " ", "u", "n", "d", " ", "n", "a", "c", "h", "n", "a", "m", "e">>,
                  <<"n", "a", "c", "h", "n", "a", "m", "e">>, <<"i", "n", "h", "a", "b", "e", "r">>, <<"a", "n", "t", "e", "i", "l", "s", "i", "n", "h", "a", "b", "e", "r">>>>

SHARE_HEADERS == <<<<"a", "n", "t", "e", "i", "l">>, <<"%">>, <<"g", "e", "s", "c", "h", "ä", "f", "t", "s", "a", "n", "t", "e", "i", "l">>, <<"n", "e", "n", "n", "b", "e", "t", "r", "a", "g">>,
                   <<"b", "e", "t", "r", "a", "g">>, <<"p", "r", "o", "z", "e", "n", "t">>>>

INDEX_HEADERS == <<<<"n", "r">>, <<"l", "f", "d">>, <<"n", "u", "m", "m", "e", "r">>>>

SourceTable == <<"t", "a", "b", "l", "e">>

SourceRegexPrefix == <<"r", "e", "g", "e", "x", ":">>

(***************************************************************************)
(* Values: Optional[float] and Shareholder                                 *)
(***************************************************************************)
None == [kind |-> "None", num |-> 0, den |-> 1]

ValueError == [kind |-> "ValueError", num |-> 0, den |-> 1]

RECURSIVE Reduce(_, _)
Reduce(num, den) ==
    IF den > 1 /\ num % 10 = 0 THEN Reduce(num \div 10, den \div 10)
    ELSE [kind |-> "float", num |-> num, den |-> den]

RECURSIVE Pow10(_)
Pow10(n) == IF n = 0 THEN 1 ELSE 10 * Pow10(n - 1)

RECURSIVE DigitsValue(_)
DigitsValue(ds) ==
    IF ds = <<>> THEN 0
    ELSE 10 * DigitsValue(SubSeq(ds, 1, Len(ds) - 1))
         + (IndexIn(Digits, ds[Len(ds)]) - 1)

\* float(s) for s made of digits and dots: a ValueError unless s is
\* digits, at most one dot, and at least one digit
Float(s) ==
    LET dots == {i \in 1..Len(s) : s[i] = "."}
        ok == /\ \A i \in 1..Len(s) : s[i] \in DigitSet \cup {"."}
              /\ Cardinality(dots) <= 1
              /\ \E i \in 1..Len(s) : s[i] \in DigitSet
    IN  IF ~ok THEN ValueError
        ELSE IF dots = {} THEN Reduce(DigitsValue(s), 1)
        ELSE LET d == CHOOSE i \in dots : TRUE
                 frac == SubSeq(s, d + 1, Len(s))
             IN  Reduce(DigitsValue(SubSeq(s, 1, d - 1)) * Pow10(Len(frac))
                          + DigitsValue(frac),
                        Pow10(Len(frac)))

Shareholder(name, share, source) ==
    [name |-> name, share_percent |-> share, is_natural_person |-> TRUE,
     source |-> source]

(***************************************************************************)
(* GesellschafterlisteParser: helpers                                      *)
(***************************************************************************)
\* re.sub(r'\s+', ' ', name): the first character of each whitespace run
\* becomes one space, the others are dropped
CollapseSpaces(s) ==
    ConcatMap(LAMBDA i : IF s[i] \notin SpaceSet THEN <<s[i]>>
                         ELSE IF i = 1 \/ s[i - 1] \notin SpaceSet
                           THEN <<" ">>
                         ELSE <<>>,
              1, Len(s))

\* a faulty variant of _clean_name: runs of whitespace are left as they are
CleanNameNoCollapse(name) == RStripComma(Strip(name))

CleanName(name) == RStripComma(Strip(CollapseSpaces(name)))

\* any(marker.lower() in name.lower() for marker in NON_PERSON_MARKERS)
HasNonPersonMarker(name) ==
    \E k \in DOMAIN NON_PERSON_MARKERS :
        Contains(Lower(name), Lower(NON_PERSON_MARKERS[k]))

\* 0 stands for None, column i of the code is column i + 1 here
FindColumnIndex(headers, search_terms) ==
    LET hit == {i \in DOMAIN headers :
                  /\ headers[i] # <<>>
                  /\ \E k \in DOMAIN search_terms :
                        Contains(headers[i], search_terms[k])}
    IN  IF hit = {} THEN 0 ELSE CHOOSE i \in hit : \A j \in hit : i <= j

PercentPattern ==
    <<Grp(Cat(<<Plus(D), Opt(Cat(<<Cls({".", ","}), Plus(D)>>))>>)),
      NoGrp(Cat(<<Ws, Lit("%")>>))>>

EurPattern ==
    <<Grp(Cat(<<Plus(Cls(DigitSet \cup {"."})),
                Opt(Cat(<<Lit(","), Plus(D)>>))>>)),
      NoGrp(Cat(<<Ws, Alt(<<Word(<<"E", "U", "R">>), Lit("€")>>)>>))>>

\* a faulty variant of _parse_share: -1.0 instead of None when nothing matches
ParseShareSentinel(share_str) ==
    IF share_str = <<>> THEN None
    ELSE IF Search(PercentPattern, share_str) = NoMatch
            /\ Search(EurPattern, share_str) = NoMatch
      THEN [kind |-> "float", num |-> -1, den |-> 1]
    ELSE None

\* the first group of a match, with its German separators made Python's
PercentNumber(share_str, pm) ==
    Replace(Groups(PercentPattern, share_str, pm)[1], ",", <<".">>)

EurNumber(share_str, em) ==
    Replace(Replace(Groups(EurPattern, share_str, em)[1], ".", <<>>),
            ",", <<".">>)

\* _parse_share: None, a float, or the ValueError float() raises
ParseShare(share_str) ==
    IF share_str = <<>> THEN None
    ELSE Let(Search(PercentPattern, share_str), LAMBDA pm :
         IF pm # NoMatch THEN Float(PercentNumber(share_str, pm))
         ELSE Let(Search(EurPattern, share_str), LAMBDA em :
              IF em # NoMatch THEN Float(EurNumber(share_str, em))
              ELSE None))

\* a faulty variant of the fallback: a column without header is taken too
FallbackNameColumnAnyHeader(header_row) ==
    LET hit == {i \in DOMAIN header_row :
                  ~\E k \in DOMAIN INDEX_HEADERS :
                        Contains(Lower(header_row[i]), INDEX_HEADERS[k])}
    IN  IF hit = {} THEN 0 ELSE CHOOSE i \in hit : \A j \in hit : i <= j

(***************************************************************************)
(* GesellschafterlisteParser: extractors, classifier, deduplicator, scorer *)
(***************************************************************************)
\* the fallback name column: the first header cell that is not empty and
\* contains none of "nr", "lfd", "nummer"; 0 stands for None
FallbackNameColumn(header_row) ==
    LET hit == {i \in DOMAIN header_row :
                  /\ header_row[i] # <<>>
                  /\ ~\E k \in DOMAIN INDEX_HEADERS :
                        Contains(Lower(header_row[i]), INDEX_HEADERS[k])}
    IN  IF hit = {} THEN 0 ELSE CHOOSE i \in hit : \A j \in hit : i <= j

\* the share of a row: None without a share column or cell
RowShare(row, share_col) ==
    IF share_col # 0 /\ Len(row) >= share_col /\ row[share_col] # <<>>
      THEN ParseShare(row[share_col]) ELSE None

\* one iteration of the row loop: the row's outcome is "skip", "raise" or
\* "emit" with the Shareholder appended
ParseRow(row, name_col, share_col) ==
    IF row = <<>> \/ Len(row) < name_col
      THEN [kind |-> "skip", shs |-> <<>>]
    ELSE IF Strip(row[name_col]) = <<>> \/ Len(Strip(row[name_col])) < 3
      THEN [kind |-> "skip", shs |-> <<>>]
    ELSE IF HasNonPersonMarker(Strip(row[name_col]))
      THEN [kind |-> "skip", shs |-> <<>>]
    ELSE Let(RowShare(row, share_col), LAMBDA share :
         IF share.kind = "ValueError" THEN [kind |-> "raise", shs |-> <<>>]
         ELSE [kind |-> "emit",
               shs |-> <<Shareholder(CleanName(Strip(row[name_col])), share,
                                     SourceTable)>>])

\* the row loop: an exception in one row leaves the function at once
ParseRows(rows, name_col, share_col) ==
    Let([i \in DOMAIN rows |-> ParseRow(rows[i], name_col, share_col)],
        LAMBDA r :
          IF \E i \in DOMAIN r : r[i].kind = "raise"
            THEN [raised |-> TRUE, shs |-> <<>>]
          ELSE [raised |-> FALSE,
                shs |-> ConcatMap(LAMBDA i : r[i].shs, 1, Len(r))])

\* the name column: by header keyword, else the fallback; 0 is None
NameColumn(header_row) ==
    Let(FindColumnIndex([i \in DOMAIN header_row |-> Lower(header_row[i])],
                        NAME_HEADERS),
        LAMBDA name_col :
          IF name_col # 0 THEN name_col ELSE FallbackNameColumn(header_row))

ShareColumn(header_row) ==
    FindColumnIndex([i \in DOMAIN header_row |-> Lower(header_row[i])],
                    SHARE_HEADERS)

\* _parse_table: the list it returns, or raised when _parse_share raises
ParseTable(table) ==
    IF Len(table) < 2 THEN [raised |-> FALSE, shs |-> <<>>]
    ELSE Let(NameColumn(table[1]), LAMBDA name_col :
         IF name_col = 0 THEN [raised |-> FALSE, shs |-> <<>>]
         ELSE ParseRows(Tail(table), name_col, ShareColumn(table[1])))

\* the name a match of pattern k stands for
MatchName(k, groups) ==
    IF PATTERN_NAMES[k] = <<"s", "t", "a", "n", "d", "a", "r", "d", "_", "b", "i", "r", "t", "h">>
      THEN groups[2] \o <<" ">> \o groups[1]
    ELSE groups[1]

\* the Shareholder of one match of pattern k, none for an invalid name
NameToShareholder(k, name) ==
    IF Len(name) < 3 \/ HasNonPersonMarker(name) THEN <<>>
    ELSE <<Shareholder(name, None, SourceRegexPrefix \o PATTERN_NAMES[k])>>

NamesToShareholders(k, matches) ==
    ConcatMap(LAMBDA j :
                 NameToShareholder(k, CleanName(MatchName(k, matches[j]))),
              1, Len(matches))

\* _parse_with_patterns
ParseWithPatterns(text) ==
    ConcatMap(LAMBDA k : NamesToShareholders(k, FindAll(PATTERNS[k], text)),
              1, Len(PATTERNS))

\* a faulty variant of _is_natural_person: five words are already too many
IsNaturalPersonFiveWords(name) ==
    IF \E k \in DOMAIN LEGAL_ENTITY_MARKERS :
          Contains(Upper(name), Upper(LEGAL_ENTITY_MARKERS[k]))
      THEN FALSE
    ELSE IF WordCount(name) >= 5 THEN FALSE
    ELSE IF \E i \in DOMAIN name : name[i] \in DigitSet THEN FALSE
    ELSE TRUE

\* _is_natural_person
IsNaturalPerson(name) ==
    IF \E k \in DOMAIN LEGAL_ENTITY_MARKERS :
          Contains(Upper(name), Upper(LEGAL_ENTITY_MARKERS[k]))
      THEN FALSE
    ELSE IF WordCount(name) > 5 THEN FALSE
    ELSE IF \E i \in DOMAIN name : name[i] \in DigitSet THEN FALSE
    ELSE TRUE

\* a faulty variant of _deduplicate: the last entry of a key is the one kept
DeduplicateKeepLast(shs) ==
    ConcatMap(LAMBDA i :
                 IF \E j \in (i + 1)..Len(shs) :
                       Strip(Lower(shs[j].name)) = Strip(Lower(shs[i].name))
                   THEN <<>> ELSE <<shs[i]>>,
              1, Len(shs))

\* _deduplicate: an entry is kept when no earlier entry has its key
Deduplicate(shs) ==
    Let([i \in DOMAIN shs |-> Strip(Lower(shs[i].name))], LAMBDA normalized :
        ConcatMap(LAMBDA i :
                     IF \E j \in 1..(i - 1) : normalized[j] = normalized[i]
                       THEN <<>> ELSE <<shs[i]>>,
                  1, Len(shs)))

\* r'\*\s*\d{2}\.\d{2}\.\d{4}'
BirthPattern == <<NoGrp(Cat(<<Lit("*"), Ws, Date>>))>>

Min(a, b) == IF a <= b THEN a ELSE b

\* a faulty variant of _calculate_confidence: the weights of the two
\* sources are exchanged
CalculateConfidenceRegexFirst(shs, text) ==
    IF shs = <<>> THEN 0
    ELSE Min((IF \E i \in DOMAIN shs : shs[i].source = SourceTable THEN 15
              ELSE IF \E i \in DOMAIN shs : Contains(shs[i].source, <<"r", "e", "g", "e", "x">>)
                THEN 30 ELSE 0)
             + (IF \E i \in DOMAIN shs : shs[i].share_percent.kind # "None"
                  THEN 20 ELSE 0)
             + (IF 1 <= Len(shs) /\ Len(shs) <= 10 THEN 20
                ELSE IF Len(shs) <= 20 THEN 10 ELSE 0)
             + (IF Search(BirthPattern, text) # NoMatch THEN 15 ELSE 0)
             + (IF Contains(Lower(text), 
                         <<"g", "e", "s", "e", "l", "l", "s", "c", "h", "a", "f", "t", "e", "r", "l", "i", "s", "t", "e">>) THEN 15 ELSE 0),
             100)

\* a faulty variant of _calculate_confidence: ten shareholders are already
\* more than a few
CalculateConfidenceTenIsMany(shs, text) ==
    IF shs = <<>> THEN 0
    ELSE Min((IF \E i \in DOMAIN shs : shs[i].source = SourceTable THEN 30
              ELSE IF \E i \in DOMAIN shs : Contains(shs[i].source, <<"r", "e", "g", "e", "x">>)
                THEN 15 ELSE 0)
             + (IF \E i \in DOMAIN shs : shs[i].share_percent.kind # "None"
                  THEN 20 ELSE 0)
             + (IF 1 <= Len(shs) /\ Len(shs) < 10 THEN 20
                ELSE IF Len(shs) <= 20 THEN 10 ELSE 0)
             + (IF Search(BirthPattern, text) # NoMatch THEN 15 ELSE 0)
             + (IF Contains(Lower(text), 
                         <<"g", "e", "s", "e", "l", "l", "s", "c", "h", "a", "f", "t", "e", "r", "l", "i", "s", "t", "e">>) THEN 15 ELSE 0),
             100)

\* a faulty variant of _calculate_confidence: no early return for an empty
\* list
CalculateConfidenceNoEarlyReturn(shs, text) ==
    Min((IF \E i \in DOMAIN shs : shs[i].source = SourceTable THEN 30
         ELSE IF \E i \in DOMAIN shs : Contains(shs[i].source, <<"r", "e", "g", "e", "x">>)
           THEN 15 ELSE 0)
        + (IF \E i \in DOMAIN shs : shs[i].share_percent.kind # "None"
             THEN 20 ELSE 0)
        + (IF 1 <= Len(shs) /\ Len(shs) <= 10 THEN 20
           ELSE IF 11 <= Len(shs) /\ Len(shs) <= 20 THEN 10 ELSE 0)
        + (IF Search(BirthPattern, text) # NoMatch THEN 15 ELSE 0)
        + (IF Contains(Lower(text), 
                    <<"g", "e", "s", "e", "l", "l", "s", "c", "h", "a", "f", "t", "e", "r", "l", "i", "s", "t", "e">>) THEN 15 ELSE 0),
        100)

\* a faulty variant of _calculate_confidence: the regex bonus is not an
\* elif of the table bonus, and the sum is not capped
CalculateConfidenceUncapped(shs, text) ==
    IF shs = <<>> THEN 0
    ELSE (IF \E i \in DOMAIN shs : shs[i].source = SourceTable THEN 30
          ELSE 0)
         + (IF \E i \in DOMAIN shs : Contains(shs[i].source, <<"r", "e", "g", "e", "x">>)
              THEN 15 ELSE 0)
         + (IF \E i \in DOMAIN shs : shs[i].share_percent.kind # "None"
              THEN 20 ELSE 0)
         + (IF 1 <= Len(shs) /\ Len(shs) <= 10 THEN 20
            ELSE IF Len(shs) <= 20 THEN 10 ELSE 0)
         + (IF Search(BirthPattern, text) # NoMatch THEN 15 ELSE 0)
         + (IF Contains(Lower(text),
                     <<"g", "e", "s", "e", "l", "l", "s", "c", "h", "a", "f", "t", "e", "r", "l", "i", "s", "t", "e">>) THEN 15 ELSE 0)

\* _calculate_confidence, in hundredths (0.3 is 30, 1.0 is 100)
CalculateConfidence(shs, text) ==
    IF shs = <<>> THEN 0
    ELSE Min((IF \E i \in DOMAIN shs : shs[i].source = SourceTable THEN 30
              ELSE IF \E i \in DOMAIN shs : Contains(shs[i].source, <<"r", "e", "g", "e", "x">>)
                THEN 15 ELSE 0)
             + (IF \E i \in DOMAIN shs : shs[i].share_percent.kind # "None"
                  THEN 20 ELSE 0)
             + (IF 1 <= Len(shs) /\ Len(shs) <= 10 THEN 20
                ELSE IF Len(shs) <= 20 THEN 10 ELSE 0)
             + (IF Search(BirthPattern, text) # NoMatch THEN 15 ELSE 0)
             + (IF Contains(Lower(text), <<"g", "e", "s", "e", "l", "l", "s", "c", "h", "a", "f", "t", "e", "r", "l", "i", "s", "t", "e">>)
                  THEN 15 ELSE 0),
             100)

\* natural / legal partition and the ParsingResult of a completed parse
Classify(shs) ==
    [i \in DOMAIN shs |->
        [shs[i] EXCEPT !.is_natural_person = IsNaturalPerson(shs[i].name)]]

ParsingResult(shs, natural, legal, confidence, raw_text) ==
    [shareholders |-> shs, natural_persons_count |-> natural,
     legal_entities_count |-> legal, confidence |-> confidence,
     raw_text |-> raw_text]

(***************************************************************************)
(* The PDF-reading collaborator: what a page's extract_text() and          *)
(* extract_tables() can return.  A table is a sequence of rows, a row a    *)
(* sequence of cells, a missing cell (None) the empty sequence.            *)
(***************************************************************************)
MaxPages == 2

TextList == <<"G", "e", "s", "e", "l", "l", "s", "c", "h", "a", "f", "t", "e", "r", "l", "i", "s", "t", "e", "\n", "1", ".", " ", "M", "a", "x", " ", "M", "a", "i", ",", " ", "g", "e", "b", ".", " ", "0", "1", ".", "0", "1", ".", "1", "9", "8", "0">>

TextBirth == <<"R", "o", "t", "h", ",", " ", "E", "v", "a", ",", " ", "U", "l", "m", ",", " ", "*", "0", "2", ".", "0", "3", ".", "1", "9", "7", "5", "\n", "B", "e", "t", "a", " ", "H", "o", "l", "d", "i", "n", "g", " ", "5", "0", " ", "%", "\n", "M", "a", "x", " ", "M", "a", "i", ",", " ", "U", "l", "m", ",", " ", "*", " ", "0", "1", ".", "0", "1", ".", "1", "9", "8", "0", "\n", "m", "a", "x", " ", "m", "a", "i", "\n", "M", "a", "x", " ", "M", "a", "i">>

TextPool == {<<>>, TextList, TextBirth}

TableShares == <<
    <<<<"N", "r">>, <<"N", "a", "m", "e">>, <<"A", "n", "t", "e", "i", "l">>>>,
    <<<<"1">>, <<"M", "a", "x", " ", "M", "a", "i">>, <<"5", "0", ",", "0", "0", " ", "%">>>>,
    <<<<"2">>, <<"m", "a", "x", " ", "m", "a", "i", " ">>, <<"2", "5", ".", "0", "0", "0", " ", "E", "U", "R">>>>,
    <<<<"3">>, <<"B", "e", "t", "a", " ", "G", "m", "b", "H">>, <<"1", "5", "0", " ", "%">>>>,
    <<<<>>, <<"S", "u", "m", "m", "e">>, <<"1", "0", "0", " ", "%">>>> >>

TableNames == <<
    <<<<"L", "f", "d", ".", " ", "N", "r", ".">>, <<"I", "n", "h", "a", "b", "e", "r">>>>,
    <<<<"1">>, <<",", ",", ",">>>>,
    <<<<"2">>, <<"E", "v", "a", " ", " ", "R", "o", "t", "h", " ", ",">>>>,
    <<<<"3">>, <<"A", "b">>>>,
    <<<<"4">>>>,
    <<>> >>

TableBadShare == <<
    <<<<"G", "e", "s", "e", "l", "l", "s", "c", "h", "a", "f", "t", "e", "r">>, <<"B", "e", "t", "r", "a", "g">>>>,
    <<<<"I", "d", "a", " ", "F", "r", "e", "y">>, <<"k", ".", "A", ".", " ", "E", "U", "R">>>> >>

TableNoNameColumn == << <<<<"N", "r">>, <<"l", "f", "d">>>>, <<<<"1">>, <<"M", "a", "x", " ", "M", "a", "i">>>> >>

TableHeaderOnly == << <<<<"N", "a", "m", "e">>, <<"A", "n", "t", "e", "i", "l">>>> >>

TableFallback == <<
    <<<<>>, <<"A", "n", "r", "e", "d", "e">>, <<"F", "i", "r", "m", "a">>>>,
    <<<<"1">>, <<"F", "r", "a", "u">>, <<"I", "d", "a", " ", "F", "r", "e", "y", " ", "7">>>>,
    <<<<"2">>, <<"H", "e", "r", "r">>, <<"M", "a", "x", " ", "M", "a", "i">>>> >>

\* a table of one shareholder whose share cell is written freely
MaxCellLen == 2

CellAlphabet == {"5", ".", "%", "€"}

ShareCells == UNION {[1..n -> CellAlphabet] : n \in 0..MaxCellLen}

TableWithShare(cell) ==
    <<<<<<"N", "a", "m", "e">>, <<"A", "n", "t", "e", "i", "l">>>>,
      <<<<"I", "d", "a", " ", "F", "r", "e", "y">>, cell>>>>

TablesPool == {<<>>, <<TableShares>>, <<TableNames, TableFallback>>,
               <<TableBadShare>>, <<TableNoNameColumn, <<>>, TableHeaderOnly>>,
               <<TableFallback>>}
              \cup {<<TableWithShare(cell)>> : cell \in ShareCells}

(***************************************************************************)
(* Database (src/src/models.py): the three tables as sequences of rows.    *)
(* Rows are never deleted and ids are AUTOINCREMENT, so the row of id i is *)
(* the i-th of its table.  A column that can be NULL holds <<>> for NULL   *)
(* and <<v>> for the value v.  last_insert_rowid is the connection's       *)
(* sqlite3_last_insert_rowid(), which cursor.lastrowid reports after each  *)
(* execute(): the rowid of the latest successful INSERT into any table.    *)
(***************************************************************************)
NewDatabase ==
    [companies |-> <<>>, shareholders |-> <<>>, pipeline_log |-> <<>>,
     last_insert_rowid |-> 0]

DatabaseNew == db = NewDatabase

\* sqlite3.connect() in Database.__init__ on the file of an earlier Database
Connect(d) == [d EXCEPT !.last_insert_rowid = 0]

CompanyRow(id, company) ==
    [id |-> id, name |-> company.name, register_num |-> company.register_num,
     dk_downloaded |-> FALSE, pdf_parsed |-> FALSE, pdf_path |-> <<>>,
     natural_persons_count |-> <<>>, legal_entities_count |-> <<>>,
     parsing_confidence |-> <<>>, is_qualified |-> <<>>]

\* SELECT id FROM companies WHERE name = ? AND register_num = ?; 0 if no row
SelectCompanyId(d, company) ==
    IF \E i \in DOMAIN d.companies :
          /\ d.companies[i].name = company.name
          /\ d.companies[i].register_num = company.register_num
      THEN Least({i \in DOMAIN d.companies :
                    /\ d.companies[i].name = company.name
                    /\ d.companies[i].register_num = company.register_num})
    ELSE 0

\* INSERT OR IGNORE INTO companies under UNIQUE(name, register_num)
InsertOrIgnore(d, company) ==
    IF SelectCompanyId(d, company) # 0 THEN d
    ELSE [d EXCEPT !.companies =
                       Append(@, CompanyRow(Len(@) + 1, company)),
                   !.last_insert_rowid = Len(d.companies) + 1]

\* insert_company: the database afterwards and the id returned
InsertCompany(d, company) ==
    Let(InsertOrIgnore(d, company), LAMBDA after :
        [db |-> after,
         value |-> IF after.last_insert_rowid = 0
                     THEN SelectCompanyId(after, company)
                   ELSE after.last_insert_rowid])

ShareholderRow(id, company_id, sh) ==
    [id |-> id, company_id |-> company_id, name |-> sh.name,
     share_percent |-> sh.share_percent,
     is_natural_person |-> sh.is_natural_person, source |-> sh.source]

\* the UPDATE of update_parsing_result: the rows WHERE id = company_id
UpdateCompanies(companies, company_id, natural_count, legal_count, confidence, is_qualified) ==
    [i \in DOMAIN companies |->
        IF i # company_id THEN companies[i]
        ELSE [companies[i] EXCEPT !.pdf_parsed = TRUE,
                                  !.natural_persons_count = <<natural_count>>,
                                  !.legal_entities_count = <<legal_count>>,
                                  !.parsing_confidence = <<confidence>>,
                                  !.is_qualified = <<is_qualified>>]]

\* the INSERTs of update_parsing_result, one for each shareholder
InsertShareholders(d, company_id, shs) ==
    IF shs = <<>> THEN d
    ELSE [d EXCEPT !.shareholders =
                       @ \o [i \in DOMAIN shs |->
                                ShareholderRow(Len(@) + i, company_id, shs[i])],
                   !.last_insert_rowid = Len(d.shareholders) + Len(shs)]

\* a faulty variant of update_parsing_result: two natural persons are one
\* too many
UpdateParsingResultBelowTwo(d, company_id, natural_count, legal_count, confidence, shs) ==
    InsertShareholders(
        [d EXCEPT !.companies =
            UpdateCompanies(@, company_id, natural_count, legal_count,
                            confidence,
                            natural_count < 2 /\ legal_count = 0)],
        company_id, shs)

\* a faulty variant of update_parsing_result: a company without natural
\* person is not qualified
UpdateParsingResultNeedsPerson(d, company_id, natural_count, legal_count, confidence, shs) ==
    InsertShareholders(
        [d EXCEPT !.companies =
            UpdateCompanies(@, company_id, natural_count, legal_count,
                            confidence,
                            natural_count \in 1..2 /\ legal_count = 0)],
        company_id, shs)

UpdateParsingResult(d, company_id, natural_count, legal_count, confidence, shs) ==
    InsertShareholders(
        [d EXCEPT !.companies =
            UpdateCompanies(@, company_id, natural_count, legal_count,
                            confidence,
                            natural_count <= 2 /\ legal_count = 0)],
        company_id, shs)

\* update_download_status: the success argument is not used
UpdateDownloadStatus(d, company_id, pdf_path, success) ==
    [d EXCEPT !.companies =
        [i \in DOMAIN @ |->
            IF i # company_id THEN @[i]
            ELSE [@[i] EXCEPT !.dk_downloaded = TRUE, !.pdf_path = pdf_path]]]

\* the limit argument: None, an int, or a value of another type
NoLimit == [kind |-> "None", n |-> 0]

IntLimit(n) == [kind |-> "int", n |-> n]

OtherLimit == [kind |-> "str", n |-> 0]

\* the greatest limit _execute_with_limit accepts
MaxLimit == 10000

QueryRaised == [raised |-> TRUE, rows |-> <<>>]

\* _execute_with_limit on the rows the query selects, in their order
ExecuteWithLimit(rows, limit) ==
    IF limit.kind = "None" THEN [raised |-> FALSE, rows |-> rows]
    ELSE IF limit.kind # "int" \/ limit.n < 1 THEN QueryRaised
    ELSE IF limit.n > MaxLimit THEN QueryRaised
    ELSE [raised |-> FALSE,
          rows |-> SubSeq(rows, 1, Min(limit.n, Len(rows)))]

\* get_pending_downloads: ORDER BY id is the order of the table
GetPendingDownloads(d, limit) ==
    ExecuteWithLimit(SelectSeq(d.companies, LAMBDA c :
                        ~c.dk_downloaded /\ c.register_num # ""),
                     limit)

\* a faulty variant of the query of get_pending_parsing: no test of pdf_path
PendingParsingAnyPath(d) ==
    SelectSeq(d.companies, LAMBDA c : c.dk_downloaded /\ ~c.pdf_parsed)

\* a faulty variant of the query of get_pending_parsing: no test of
\* pdf_parsed
PendingParsingParsedToo(d) ==
    SelectSeq(d.companies, LAMBDA c :
        c.dk_downloaded /\ c.pdf_path # <<>>)

\* the query of get_pending_parsing
PendingParsing(d) ==
    SelectSeq(d.companies, LAMBDA c :
        c.dk_downloaded /\ ~c.pdf_parsed /\ c.pdf_path # <<>>)

GetPendingParsing(d, limit) == ExecuteWithLimit(PendingParsing(d), limit)

\* log_event: one row more in pipeline_log
LogEvent(d, company_id, stage, status, message) ==
    [d EXCEPT !.pipeline_log =
                  Append(@, [id |-> Len(@) + 1, company_id |-> company_id,
                             stage |-> stage, status |-> status,
                             message |-> message]),
              !.last_insert_rowid = Len(d.pipeline_log) + 1]

(***************************************************************************)
(* GesellschafterlistenDownloader (src/src/dk_downloader.py): file names.  *)
(* A path is the sequence of its components.                               *)
(***************************************************************************)
WINDOWS_RESERVED_NAMES ==
    {<<"C", "O", "N">>, <<"P", "R", "N">>, <<"A", "U", "X">>, <<"N", "U", "L">>}
    \cup {<<"C", "O", "M">> \o <<Digits[i]>> : i \in 2..10}
    \cup {<<"L", "P", "T">> \o <<Digits[i]>> : i \in 2..10}

\* the regex class \w
WordSet == LowerSet \cup UpperSet \cup DigitSet \cup {"ß", "_"}

SeparatorSet == SpaceSet \cup {"-", "_"}

\* the length safe[:200] cuts to
MaxSafeLength == 200

\* self.download_dir, as pipeline.py sets it: base_dir / "pdfs"
DownloadDir == <<<<"b", "a", "s", "e">>, <<"p", "d", "f", "s">>>>

\* the components of a path written with "/"
RECURSIVE SplitPath(_)
SplitPath(s) ==
    IF \A i \in DOMAIN s : s[i] # "/" THEN <<s>>
    ELSE <<SubSeq(s, 1, Least({i \in DOMAIN s : s[i] = "/"}) - 1)>>
         \o SplitPath(SubSeq(s, Least({i \in DOMAIN s : s[i] = "/"}) + 1,
                             Len(s)))

\* Path.resolve() without symbolic links: "" and "." are dropped, ".."
\* leaves the directory reached so far
RECURSIVE ResolveFrom(_, _)
ResolveFrom(done, components) ==
    IF components = <<>> THEN done
    ELSE IF Head(components) \in {<<>>, <<".">>}
      THEN ResolveFrom(done, Tail(components))
    ELSE IF Head(components) = <<".", ".">>
      THEN ResolveFrom(SubSeq(done, 1, Len(done) - 1), Tail(components))
    ELSE ResolveFrom(Append(done, Head(components)), Tail(components))

\* (download_dir / name).resolve().is_relative_to(download_dir.resolve());
\* a name that starts with "/" is an absolute path
ResolvesInside(name) ==
    \E path \in {ResolveFrom(<<>>, IF name # <<>> /\ name[1] = "/"
                                      THEN SplitPath(name)
                                    ELSE DownloadDir \o SplitPath(name))} :
        /\ Len(path) >= Len(DownloadDir)
        /\ SubSeq(path, 1, Len(DownloadDir)) = DownloadDir

\* re.sub(r"[^\w\s\-]", "", name)
RemoveDisallowed(name) ==
    SelectSeq(name, LAMBDA c : c \in WordSet \cup SpaceSet \cup {"-"})

\* re.sub(r"[-\s_]+", "_", safe)
CollapseSeparators(s) ==
    ConcatMap(LAMBDA i : IF s[i] \notin SeparatorSet THEN <<s[i]>>
                         ELSE IF i = 1 \/ s[i - 1] \notin SeparatorSet
                           THEN <<"_">>
                         ELSE <<>>,
              1, Len(s))

\* safe.strip("_-")
StripSeparators(s) ==
    IF \A i \in DOMAIN s : s[i] \in {"_", "-"} THEN <<>>
    ELSE SubSeq(s, Least({i \in DOMAIN s : s[i] \notin {"_", "-"}}),
                   Greatest({i \in DOMAIN s : s[i] \notin {"_", "-"}}))

SanitizeRaised == [raised |-> TRUE, value |-> <<>>]

\* the name before the reserved names are looked at
SafePart(name) ==
    Let(CollapseSeparators(RemoveDisallowed(name)), LAMBDA safe :
        StripSeparators(SubSeq(safe, 1, Min(MaxSafeLength, Len(safe)))))

\* a faulty variant of _sanitize_filename: reserved device names pass
SanitizeFilenameKeepsReserved(name) ==
    IF name = <<>> \/ Strip(name) = <<>> THEN SanitizeRaised
    ELSE IF Contains(name, <<".", ".">>) \/ Contains(name, <<"/">>)
            \/ Contains(name, <<"\\">>)
      THEN SanitizeRaised
    ELSE Let(SafePart(name), LAMBDA safe :
         IF safe = <<>> THEN SanitizeRaised
         ELSE IF ~ResolvesInside(safe) THEN SanitizeRaised
         ELSE [raised |-> FALSE, value |-> safe])

\* _sanitize_filename: the name it returns, or raised for a ValueError
SanitizeFilename(name) ==
    IF name = <<>> \/ Strip(name) = <<>> THEN SanitizeRaised
    ELSE IF Contains(name, <<".", ".">>) \/ Contains(name, <<"/">>)
            \/ Contains(name, <<"\\">>)
      THEN SanitizeRaised
    ELSE Let(SafePart(name), LAMBDA safe :
         IF safe = <<>> THEN SanitizeRaised
         ELSE Let(IF Upper(safe) \in WINDOWS_RESERVED_NAMES
                    THEN <<"f", "i", "l", "e", "_">> \o safe ELSE safe,
                  LAMBDA final :
                    IF ~ResolvesInside(final) THEN SanitizeRaised
                    ELSE [raised |-> FALSE, value |-> final]))

(***************************************************************************)
(* RateLimiter (src/src/dk_downloader.py).  Time is counted in whole        *)
(* seconds; now is what time.time() returns.  called is the time.time() of  *)
(* the running wait(), sleep_time what it passes to time.sleep() (0 if it   *)
(* does not sleep) and recorded the timestamps this instance has set.       *)
(***************************************************************************)
\* 3600.0 / calls_per_hour, for the rates that divide the hour
MinInterval(calls_per_hour) == 3600 \div calls_per_hour

\* random.uniform(1, 5)
MinJitter == 1

MaxJitter == 5

\* RateLimiter.__init__: last_call is what _load_state returned
RateLimiter(calls_per_hour, last_call) ==
    [min_interval |-> MinInterval(calls_per_hour), last_call |-> last_call,
     pc |-> "idle", called |-> 0, sleep_time |-> 0, recorded |-> <<>>]

(***************************************************************************)
(* GFScreeningPipeline (src/src/pipeline.py).  files is the set of paths    *)
(* that exist in the PDF directory.  run is the running run_downloads or    *)
(* run_parsing: its position pc, the companies it fetched, the index i of   *)
(* the current one, the DownloadResult of the current one, whether an       *)
(* exception is on its way out, and the two counters of run_parsing.        *)
(* downloader is the downloader of the running run_downloads: whether its   *)
(* driver is set, and the calls run_downloads has made on it.  history      *)
(* remembers the latest step, every call of download() with how it ended,   *)
(* the companies run_parsing skipped for a missing file, and the number of  *)
(* exceptions raised so far.                                                *)
(***************************************************************************)
RunIdle ==
    [pc |-> "idle", pending |-> <<>>, i |-> 0, result |-> <<>>,
     raised |-> FALSE, qualified_count |-> 0, error_count |-> 0]

NoDownloader == [driver |-> FALSE, calls |-> <<>>]

NoHistory ==
    [last |-> [step |-> "none"], attempts |-> <<>>, skipped |-> {},
     faults |-> 0]

\* the pipeline after __init__, with no pipeline operation under way
PipelineIdle ==
    /\ files = {}
    /\ run = RunIdle
    /\ downloader = NoDownloader
    /\ history = NoHistory
    /\ limiter = RateLimiter(60, 0)
    /\ now = 0

(***************************************************************************)
(* parse(): one call at a time on one parser; the steps are the calls to   *)
(* the collaborator, each of which returns or raises.                      *)
(***************************************************************************)
NoResult == <<>>

\* the ParsingResult of the except branch and of a missing file
EmptyResult(raw_text) == ParsingResult(<<>>, 0, 0, 0, raw_text)

\* a faulty variant of the part after the try block: the counts are taken
\* before the duplicates are removed
CompletedResultCountsAll(shs, text) ==
    ParsingResult(Classify(Deduplicate(shs)),
                  Len(SelectSeq(Classify(shs),
                                LAMBDA sh : sh.is_natural_person)),
                  Len(SelectSeq(Classify(shs),
                                LAMBDA sh : ~sh.is_natural_person)),
                  CalculateConfidence(Classify(Deduplicate(shs)), text), text)

\* the part of parse() after the try block
CompletedResult(shs, text) ==
    Let(Classify(Deduplicate(shs)), LAMBDA unique :
        ParsingResult(unique,
                      Len(SelectSeq(unique, LAMBDA sh : sh.is_natural_person)),
                      Len(SelectSeq(unique, LAMBDA sh : ~sh.is_natural_person)),
                      CalculateConfidence(unique, text), text))

\* the tables of one page, in order: empty tables are skipped, a raise in
\* one table ends the loop
ParseTables(tables) ==
    Let([i \in DOMAIN tables |->
            IF tables[i] = <<>> THEN [raised |-> FALSE, shs |-> <<>>]
            ELSE ParseTable(tables[i])],
        LAMBDA r :
          IF \E i \in DOMAIN r : r[i].raised
            THEN [raised |-> TRUE, shs |-> <<>>]
          ELSE [raised |-> FALSE,
                shs |-> ConcatMap(LAMBDA i : r[i].shs, 1, Len(r))])

\* the parser before its first call
ParseIdle ==
    /\ pc = "idle"
    /\ path_exists = FALSE
    /\ n_pages = 0
    /\ page = 0
    /\ text_buf = <<>>
    /\ full_text = <<>>
    /\ shareholders = <<>>
    /\ collab_calls = <<>>
    /\ caught = "none"
    /\ result = NoResult

\* arg and out belong to the specifications of the single methods below
Init ==
    /\ ParseIdle
    /\ DatabaseNew
    /\ PipelineIdle
    /\ arg = <<>>
    /\ out = <<>>

\* a faulty variant of the except branch: what was extracted so far is
\* returned
ExceptKeepsPartial(exc) ==
    /\ caught' = exc
    /\ result' = CompletedResult(shareholders, full_text)
    /\ pc' = "done"

\* the except branch: the exception is logged and an empty result returned
Except(exc) ==
    /\ caught' = exc
    /\ result' = EmptyResult(full_text)
    /\ pc' = "done"

\* a faulty variant of the entry of parse(): no test that the file exists
ParseStartUnchecked(exists) ==
    /\ pc \in {"idle", "done"}
    /\ path_exists' = exists
    /\ n_pages' = 0
    /\ page' = 0
    /\ text_buf' = <<>>
    /\ full_text' = <<>>
    /\ shareholders' = <<>>
    /\ collab_calls' = <<>>
    /\ caught' = "none"
    /\ pc' = "open" /\ result' = NoResult
    /\ UNCHANGED <<arg, out, db, pipeline_vars>>

\* a faulty variant of the entry of parse(): the list of shareholders is an
\* attribute of the parser that is never emptied
ParseStartKeepsShareholders(exists) ==
    /\ pc \in {"idle", "done"}
    /\ path_exists' = exists
    /\ n_pages' = 0
    /\ page' = 0
    /\ text_buf' = <<>>
    /\ full_text' = <<>>
    /\ collab_calls' = <<>>
    /\ caught' = "none"
    /\ IF exists THEN pc' = "open" /\ result' = NoResult
       ELSE pc' = "done" /\ result' = EmptyResult(<<>>)
    /\ UNCHANGED <<shareholders, arg, out, db, pipeline_vars>>

\* parse(pdf_path) is called; a missing file returns at once
ParseStart(exists) ==
    /\ pc \in {"idle", "done"}
    /\ path_exists' = exists
    /\ n_pages' = 0
    /\ page' = 0
    /\ text_buf' = <<>>
    /\ full_text' = <<>>
    /\ shareholders' = <<>>
    /\ collab_calls' = <<>>
    /\ caught' = "none"
    /\ IF exists THEN pc' = "open" /\ result' = NoResult
       ELSE pc' = "done" /\ result' = EmptyResult(<<>>)
    /\ UNCHANGED <<arg, out, db, pipeline_vars>>

\* pdfplumber.open(pdf_path) returns a document of n pages
Open(n) ==
    /\ pc = "open"
    /\ collab_calls' = Append(collab_calls, "open")
    /\ n_pages' = n
    /\ pc' = "text"
    /\ UNCHANGED <<path_exists, page, text_buf, full_text, shareholders,
                   caught, result, arg, out, db, pipeline_vars>>

OpenRaises ==
    /\ pc = "open"
    /\ collab_calls' = Append(collab_calls, "open")
    /\ Except("collaborator")
    /\ UNCHANGED <<path_exists, n_pages, page, text_buf, full_text,
                   shareholders, arg, out, db, pipeline_vars>>

\* a faulty variant of the text extraction: full_text grows page by page
ExtractTextAccumulates(text) ==
    /\ pc = "text" /\ page < n_pages
    /\ collab_calls' = Append(collab_calls, "extract_text")
    /\ text_buf' = Append(text_buf, text)
    /\ full_text' = Join(Append(text_buf, text), <<"\n">>)
    /\ page' = page + 1
    /\ UNCHANGED <<pc, path_exists, n_pages, shareholders, caught, result,
                   arg, out, db, pipeline_vars>>

\* page.extract_text() of the next page returns text (None counts as "")
ExtractText(text) ==
    /\ pc = "text" /\ page < n_pages
    /\ collab_calls' = Append(collab_calls, "extract_text")
    /\ text_buf' = Append(text_buf, text)
    /\ page' = page + 1
    /\ UNCHANGED <<pc, path_exists, n_pages, full_text, shareholders, caught,
                   result, arg, out, db, pipeline_vars>>

\* it raises inside the generator: full_text has not been assigned yet
ExtractTextRaises ==
    /\ pc = "text" /\ page < n_pages
    /\ collab_calls' = Append(collab_calls, "extract_text")
    /\ Except("collaborator")
    /\ UNCHANGED <<path_exists, n_pages, page, text_buf, full_text,
                   shareholders, arg, out, db, pipeline_vars>>

\* the generator is exhausted: full_text = "\n".join(...)
JoinText ==
    /\ pc = "text" /\ page = n_pages
    /\ full_text' = Join(text_buf, <<"\n">>)
    /\ page' = 0
    /\ pc' = "tables"
    /\ UNCHANGED <<path_exists, n_pages, text_buf, shareholders,
                   collab_calls, caught, result, arg, out, db, pipeline_vars>>

\* page.extract_tables() of the next page returns its tables, and each is
\* parsed; a ValueError out of _parse_table reaches the except branch
ExtractTables(tables) ==
    /\ pc = "tables" /\ page < n_pages
    /\ collab_calls' = Append(collab_calls, "extract_tables")
    /\ \E r \in {ParseTables(tables)} :
          IF r.raised
            THEN /\ Except("ValueError")
                 /\ UNCHANGED <<page, shareholders>>
          ELSE /\ shareholders' = shareholders \o r.shs
               /\ page' = page + 1
               /\ UNCHANGED <<pc, caught, result>>
    /\ UNCHANGED <<path_exists, n_pages, text_buf, full_text, arg, out, db, pipeline_vars>>

ExtractTablesRaises ==
    /\ pc = "tables" /\ page < n_pages
    /\ collab_calls' = Append(collab_calls, "extract_tables")
    /\ Except("collaborator")
    /\ UNCHANGED <<path_exists, n_pages, page, text_buf, full_text,
                   shareholders, arg, out, db, pipeline_vars>>

\* a faulty variant of the end of the try block: the regex fallback runs
\* whatever the tables gave
FinishAlwaysRegex ==
    /\ pc = "tables" /\ page = n_pages
    /\ \E found \in {shareholders \o ParseWithPatterns(full_text)} :
          /\ shareholders' = found
          /\ result' = CompletedResult(found, full_text)
    /\ pc' = "done"
    /\ UNCHANGED <<path_exists, n_pages, page, text_buf, full_text,
                   collab_calls, caught, arg, out, db, pipeline_vars>>

\* every page is done: the regex fallback if no table gave a shareholder,
\* then deduplication, classification and scoring
Finish ==
    /\ pc = "tables" /\ page = n_pages
    /\ \E found \in {IF shareholders = <<>>
                        THEN ParseWithPatterns(full_text)
                      ELSE shareholders} :
          /\ shareholders' = found
          /\ result' = CompletedResult(found, full_text)
    /\ pc' = "done"
    /\ UNCHANGED <<path_exists, n_pages, page, text_buf, full_text,
                   collab_calls, caught, arg, out, db, pipeline_vars>>

Next ==
    \/ \E exists \in BOOLEAN : ParseStart(exists)
    \/ \E n \in 0..MaxPages : Open(n)
    \/ OpenRaises
    \/ \E text \in TextPool : ExtractText(text)
    \/ ExtractTextRaises
    \/ JoinText
    \/ \E tables \in TablesPool : ExtractTables(tables)
    \/ ExtractTablesRaises
    \/ Finish

Spec == Init /\ [][Next]_vars

\* parse() of documents of one page without tables: the text is some lines
\* of a list, each ended by a newline
MaxLines == 2

ScenarioLines ==
    {<<"1", ".", " ", "M", "a", "x", " ", "M", "u", "s", "t", "e", "r", "m", "a", "n", "n", ",", " ", "g", "e", "b", ".", " ", "0", "1", ".", "0", "1", ".", "1", "9", "8", "0">>,
     <<"2", ".", " ", "A", "l", "p", "h", "a", " ", "H", "o", "l", "d", "i", "n", "g", " ", "G", "m", "b", "H">>,
     <<"A", "l", "p", "h", "a", " ", "H", "o", "l", "d", "i", "n", "g", " ", "G", "m", "b", "h">>,
     <<"G", "e", "s", "e", "l", "l", "s", "c", "h", "a", "f", "t", "e", "r", "l", "i", "s", "t", "e">>,
     <<"M", "a", "x", " ", "M", "u", "s", "t", "e", "r", "m", "a", "n", "n">>}

ScenarioTexts ==
    {ConcatMap(LAMBDA i : lines[i] \o <<"\n">>, 1, Len(lines)) :
        lines \in UNION {[1..n -> ScenarioLines] : n \in 0..MaxLines}}

NextTextOnly ==
    \/ ParseStart(TRUE)
    \/ Open(1)
    \/ \E text \in ScenarioTexts : ExtractText(text)
    \/ JoinText
    \/ ExtractTables(<<>>)
    \/ Finish

SpecTextOnly == Init /\ [][NextTextOnly]_vars

\* parse() called again and again on one parser: arg is the document of the
\* current call, out[d] holds the first result returned for document d
Page(text, tables) == [text |-> text, tables |-> tables]

Documents ==
    << <<Page(TextList, <<>>)>>,
       <<Page(<<>>, <<TableShares>>)>>,
       <<Page(TextBirth, <<>>), Page(TextList, <<TableFallback>>)>>,
       <<>>,
       <<Page(TextList, <<TableBadShare>>)>> >>

InitCalls ==
    /\ ParseIdle
    /\ DatabaseNew
    /\ PipelineIdle
    /\ arg \in DOMAIN Documents
    /\ out = [d \in DOMAIN Documents |-> <<>>]

\* the caller takes the result and turns to the next document
NextDocument(d) ==
    /\ pc = "done"
    /\ pc' = "idle"
    /\ out' = [out EXCEPT ![arg] = IF @ = <<>> THEN <<result>> ELSE @]
    /\ arg' = d
    /\ UNCHANGED <<path_exists, n_pages, page, text_buf, full_text,
                   shareholders, collab_calls, caught, result, db, pipeline_vars>>

NextCalls ==
    \/ ParseStart(TRUE)
    \/ Open(Len(Documents[arg]))
    \/ \E p \in {i \in DOMAIN Documents[arg] : i = page + 1} :
          ExtractText(Documents[arg][p].text)
    \/ JoinText
    \/ \E p \in {i \in DOMAIN Documents[arg] : i = page + 1} :
          ExtractTables(Documents[arg][p].tables)
    \/ Finish
    \/ \E d \in DOMAIN Documents : NextDocument(d)

SpecCalls == InitCalls /\ [][NextCalls]_vars

(***************************************************************************)
(* The methods on their own: arg is the argument of one call, out its     *)
(* return value once the call is made.                                     *)
(***************************************************************************)
NotCalled == [done |-> FALSE, value |-> <<>>]

Returned(value) == [done |-> TRUE, value |-> value]

\* _deduplicate(arg)
MaxList == 3

DedupNames == {<<"M", "a", "x", " ", "M", "a", "i">>, <<"m", "a", "x", " ", "m", "a", "i", " ">>, <<" ", "M", "A", "X", " ", "M", "A", "I">>, <<"E", "v", "a", " ", "R", "o", "t", "h">>}

DedupEntries ==
    {Shareholder(name, share, SourceTable) :
        name \in DedupNames, share \in {None, Float(<<"5", "0">>)}}

DedupLists == UNION {[1..n -> DedupEntries] : n \in 0..MaxList}

InitDedup == ParseIdle /\ DatabaseNew /\ PipelineIdle /\ arg \in DedupLists /\ out = NotCalled

CallDeduplicate ==
    /\ ~out.done
    /\ out' = Returned(Deduplicate(arg))
    /\ UNCHANGED <<parse_vars, arg, db, pipeline_vars>>

SpecDedup == InitDedup /\ [][CallDeduplicate]_vars

\* _is_natural_person(arg)
MaxWords == 6

ClassifyWords == {<<"M", "a", "x">>, <<"a", "g">>, <<"P", "r", "e", "u", "ß", "e">>, <<"B", "2">>}

ClassifySeparators == {<<" ">>, <<"\t", " ">>}

ClassifyNames ==
    {Join(words, sep) :
        words \in UNION {[1..n -> ClassifyWords] : n \in 0..MaxWords},
        sep \in ClassifySeparators}

InitClassify == ParseIdle /\ DatabaseNew /\ PipelineIdle /\ arg \in ClassifyNames /\ out = NotCalled

CallIsNaturalPerson ==
    /\ ~out.done
    /\ out' = Returned(IsNaturalPerson(arg))
    /\ UNCHANGED <<parse_vars, arg, db, pipeline_vars>>

SpecClassify == InitClassify /\ [][CallIsNaturalPerson]_vars

\* _calculate_confidence(arg.shareholders, arg.text)
MaxShareholders == 21

ConfidenceEntries ==
    {Shareholder(<<"M", "a", "x", " ", "M", "a", "i">>, share, source) :
        share \in {None, Float(<<"5", "0">>)},
        source \in {SourceTable, SourceRegexPrefix \o PATTERN_NAMES[1], <<>>}}

ConfidenceLists ==
    {[i \in 1..n |-> IF i = 1 THEN first ELSE other] :
        n \in 0..MaxShareholders,
        first \in ConfidenceEntries, other \in ConfidenceEntries}

ConfidenceTexts == {<<>>, TextList, TextBirth, TextList \o <<"\n">> \o TextBirth}

InitConfidence ==
    /\ ParseIdle
    /\ DatabaseNew
    /\ PipelineIdle
    /\ arg \in [shareholders : ConfidenceLists, text : ConfidenceTexts]
    /\ out = NotCalled

CallCalculateConfidence ==
    /\ ~out.done
    /\ out' = Returned(CalculateConfidence(arg.shareholders, arg.text))
    /\ UNCHANGED <<parse_vars, arg, db, pipeline_vars>>

SpecConfidence == InitConfidence /\ [][CallCalculateConfidence]_vars

\* _parse_share(arg): the examples of the tests and every short string of
\* digits, separators, units and blanks
MaxShareLen == 4

ShareStrings ==
    {<<"1", "2", ".", "5", "0", "0", " ", "E", "U", "R">>,
     <<"2", "5", ".", "0", "0", "0", ",", "0", "0", " ", "E", "U", "R">>,
     <<"5", "0", ",", "0", "0", " ", "%">>,
     <<"k", "e", "i", "n", "e", " ", "A", "n", "g", "a", "b", "e">>,
     <<"7", " ", "E", "U", "R", " ", "1", "2", " ", "%">>}
    \cup UNION {[1..n -> {"5", ".", ",", "%", "€", " "}] : n \in 0..MaxShareLen}

InitShare == ParseIdle /\ DatabaseNew /\ PipelineIdle /\ arg \in ShareStrings /\ out = NotCalled

CallParseShare ==
    /\ ~out.done
    /\ out' = Returned(ParseShare(arg))
    /\ UNCHANGED <<parse_vars, arg, db, pipeline_vars>>

SpecShare == InitShare /\ [][CallParseShare]_vars

\* _parse_table on tables of a header row and at most one data row whose
\* cells tell the columns apart; a header cell can be missing (None)
MaxColumns == 2

HeaderCells ==
    {<<>>, <<"N", "r", ".">>, <<"l", "f", "d">>, <<"O", "r", "t">>, <<"N", "a", "m", "e">>, <<"I", "N", "H", "A", "B", "E", "R">>}

RowCells == <<<<"I", "d", "a", " ", "A", "x">>, <<"B", "o", "b", " ", "B", "o">>, <<"C", "y", "d", " ", "C", "y">>, <<"D", "a", "n", " ", "D", "o">>>>

HeaderTables ==
    {<<>>} \cup
    UNION {{<<header>>, <<header, SubSeq(RowCells, 1, Len(header))>>} :
              header \in UNION {[1..n -> HeaderCells] : n \in 0..MaxColumns}}

InitTable == ParseIdle /\ DatabaseNew /\ PipelineIdle /\ arg \in HeaderTables /\ out = NotCalled

CallParseTable ==
    /\ ~out.done
    /\ out' = Returned(ParseTable(arg))
    /\ UNCHANGED <<parse_vars, arg, db, pipeline_vars>>

SpecTable == InitTable /\ [][CallParseTable]_vars

\* _sanitize_filename on short names over a few characters, on some names
\* of the kind the downloader passes, and on names longer than the cut
MaxNameLen == 3

LongName(n, tail) == [i \in 1..n |-> "a"] \o tail

FileNames ==
    UNION {[1..n -> {"a", "N", "1", "_", "-", " ", ".", "/"}] :
              n \in 0..MaxNameLen}
    \cup {<<"C", "O", "N">>, <<"c", "o", "n">>, <<"N", "u", "l">>, <<" ", "a", "u", "x", " ">>, <<"C", "O", "M", "1">>, <<"l", "p", "t", "9">>, <<"C", "O", "M", "0">>,
          <<"c", "o", "-", "n">>, <<"P", "R", "N", ".">>, <<"H", "R", "B", " ", "1", "2", "3", "4", "5", " ", "B">>, <<"a", "\\", "b">>, <<".", ".", "/", "e", "t", "c">>, <<"$", "%", "&">>,
          <<"S", "t", "r", "a", "ß", "e", " ", "5">>}
    \cup {LongName(MaxSafeLength + 1, <<>>),
          LongName(MaxSafeLength - 1, <<"-", "b">>),
          LongName(MaxSafeLength - 2, <<" ", "-", " ", "b">>),
          LongName(MaxSafeLength, <<"/">>),
          <<"_">> \o LongName(MaxSafeLength, <<>>)}

InitSanitize == ParseIdle /\ DatabaseNew /\ PipelineIdle /\ arg \in FileNames /\ out = NotCalled

CallSanitizeFilename ==
    /\ ~out.done
    /\ out' = Returned(SanitizeFilename(arg))
    /\ UNCHANGED <<parse_vars, arg, db, pipeline_vars>>

SpecSanitize == InitSanitize /\ [][CallSanitizeFilename]_vars

\* the part of parse() after the try block, on a list the extractors gave
\* and the text of the document
ResultName(i) == <<"M", "a", "x", " ", Uppers[i], "o">>

ResultLists ==
    {[i \in 1..n |->
        Shareholder(IF dup /\ i = n /\ n > 1 THEN Upper(ResultName(1))
                    ELSE ResultName(i),
                    IF (with_share = "first" /\ i = 1)
                         \/ (with_share = "last" /\ i = n)
                      THEN Float(<<"5", "0">>) ELSE None,
                    source)] :
        n \in 0..MaxShareholders, dup \in BOOLEAN,
        with_share \in {"none", "first", "last"},
        source \in {SourceTable, SourceRegexPrefix \o PATTERN_NAMES[5], <<>>}}

InitResult ==
    /\ ParseIdle
    /\ DatabaseNew
    /\ PipelineIdle
    /\ arg \in [shareholders : ResultLists, text : ConfidenceTexts]
    /\ out = NotCalled

CallCompletedResult ==
    /\ ~out.done
    /\ out' = Returned(CompletedResult(arg.shareholders, arg.text))
    /\ UNCHANGED <<parse_vars, arg, db, pipeline_vars>>

SpecResult == InitResult /\ [][CallCompletedResult]_vars

\* The methods of one Database, called in any order: arg is the call, out
\* what it returned (None for the methods that return nothing).  MaxRows
\* bounds the rows of shareholders and pipeline_log together.
MaxRows == 2

Companies ==
    {[name |-> "A GmbH", register_num |-> "HRB 1"],
     [name |-> "A GmbH", register_num |-> "HRB 2"]}

CompanyIds == 1..Cardinality(Companies)

ParsingInputs ==
    {[natural_count |-> 2, legal_count |-> 0, confidence |-> 85,
      shareholders |-> <<Shareholder(<<"I", "d", "a">>, Reduce(50, 1),
                                     SourceTable),
                         Shareholder(<<"M", "a", "x">>, None, SourceTable)>>],
     [natural_count |-> 3, legal_count |-> 0, confidence |-> 50,
      shareholders |-> <<>>],
     [natural_count |-> 0, legal_count |-> 1, confidence |-> 35,
      shareholders |-> <<[Shareholder(<<"A", "b", " ", "A", "G">>, None,
                                      SourceRegexPrefix)
                            EXCEPT !.is_natural_person = FALSE]>>]}

InitDatabase == ParseIdle /\ DatabaseNew /\ PipelineIdle /\ arg = <<>> /\ out = NotCalled

CallConnect ==
    /\ arg' = [op |-> "connect"]
    /\ db' = Connect(db)
    /\ out' = Returned(None)
    /\ UNCHANGED <<parse_vars, pipeline_vars>>

CallInsertCompany(company) ==
    /\ arg' = [op |-> "insert_company", company |-> company]
    /\ \E r \in {InsertCompany(db, company)} :
          db' = r.db /\ out' = Returned(r.value)
    /\ UNCHANGED <<parse_vars, pipeline_vars>>

CallUpdateParsingResult(company_id, in) ==
    /\ Len(db.shareholders) + Len(db.pipeline_log) + Len(in.shareholders)
          <= MaxRows
    /\ arg' = [op |-> "update_parsing_result", company_id |-> company_id,
               in |-> in]
    /\ db' = UpdateParsingResult(db, company_id, in.natural_count,
                                 in.legal_count, in.confidence,
                                 in.shareholders)
    /\ out' = Returned(None)
    /\ UNCHANGED <<parse_vars, pipeline_vars>>

CallLogEvent(company_id) ==
    /\ Len(db.shareholders) + Len(db.pipeline_log) < MaxRows
    /\ arg' = [op |-> "log_event", company_id |-> company_id]
    /\ db' = LogEvent(db, company_id, "parse", "success", "")
    /\ out' = Returned(None)
    /\ UNCHANGED <<parse_vars, pipeline_vars>>

Limits ==
    {NoLimit, OtherLimit, IntLimit(-1), IntLimit(0), IntLimit(1), IntLimit(2),
     IntLimit(MaxLimit), IntLimit(MaxLimit + 1)}

PdfPaths == {<<>>, <<"pdfs/HRB_1.pdf">>}

CallUpdateDownloadStatus(company_id, pdf_path) ==
    /\ arg' = [op |-> "update_download_status", company_id |-> company_id]
    /\ db' = UpdateDownloadStatus(db, company_id, pdf_path, pdf_path # <<>>)
    /\ out' = Returned(None)
    /\ UNCHANGED <<parse_vars, pipeline_vars>>

CallGetPendingParsing(limit) ==
    /\ arg' = [op |-> "get_pending_parsing", limit |-> limit]
    /\ out' = Returned(GetPendingParsing(db, limit))
    /\ UNCHANGED <<parse_vars, db, pipeline_vars>>

NextDatabase ==
    \/ \E company_id \in CompanyIds, pdf_path \in PdfPaths :
          CallUpdateDownloadStatus(company_id, pdf_path)
    \/ \E limit \in Limits : CallGetPendingParsing(limit)
    \/ CallConnect
    \/ \E company \in Companies : CallInsertCompany(company)
    \/ \E company_id \in CompanyIds, in \in ParsingInputs :
          CallUpdateParsingResult(company_id, in)
    \/ \E company_id \in CompanyIds : CallLogEvent(company_id)

SpecDatabase == InitDatabase /\ [][NextDatabase]_vars

(***************************************************************************)
(* The pipeline: import_file, run_downloads, run_parsing and export, one   *)
(* at a time on one database, with the files of the PDF directory.  The    *)
(* steps of run_downloads are the calls on the downloader and the database *)
(* calls that record one result; the steps of run_parsing are the          *)
(* companies.  A call that raises changes nothing.                         *)
(***************************************************************************)
CompanyA == [name |-> "A GmbH", register_num |-> "HRB 1"]

CompanyB == [name |-> "B GmbH", register_num |-> "HRB 2"]

CompanyNoNumber == [name |-> "C GmbH", register_num |-> ""]

\* the rows of the import files
ImportFiles == {<<CompanyA>>, <<CompanyA, CompanyNoNumber, CompanyB>>}

\* the limits given to run_downloads and run_parsing
PipelineLimits == {NoLimit, IntLimit(0), IntLimit(1)}

\* the greatest number of exceptions raised in one behaviour
MaxFaults == 1

\* the file the downloader saves for a register number
PdfFileOf(register_num) ==
    CASE register_num = "HRB 1" -> "pdfs/HRB_1.pdf"
      [] register_num = "HRB 2" -> "pdfs/HRB_2.pdf"
      [] OTHER -> "pdfs/download.pdf"

\* what parse() returns for the files: an unreadable one, a text with one
\* natural person, a table with a natural person and a company
ParseResults ==
    {EmptyResult(<<>>),
     CompletedResult(ParseWithPatterns(TextList), TextList),
     CompletedResult(ParseTable(TableShares).shs, <<>>)}

Step(step, company_id) == [step |-> step, company_id |-> company_id]

\* _import_csv and _import_excel: insert_company for each row
RECURSIVE ImportRows(_, _)
ImportRows(d, rows) ==
    IF rows = <<>> THEN d
    ELSE ImportRows(InsertCompany(d, Head(rows)).db, Tail(rows))

DownloadResult(success, pdf_path, no_gl_available) ==
    [success |-> success, pdf_path |-> pdf_path,
     no_gl_available |-> no_gl_available]

\* the three results download() returns
DownloadResults(company) ==
    {DownloadResult(TRUE, <<PdfFileOf(company.register_num)>>, FALSE),
     DownloadResult(TRUE, <<>>, TRUE),
     DownloadResult(FALSE, <<>>, FALSE)}

DatabaseCall(method, pdf_path, success, status, message) ==
    [method |-> method, pdf_path |-> pdf_path, success |-> success,
     status |-> status, message |-> message]

\* a faulty variant of the database calls for one result: a failed download
\* is logged and not marked
DownloadCallsFailureUnmarked(outcome) ==
    IF outcome.success
      THEN <<DatabaseCall("update_download_status", outcome.pdf_path, TRUE,
                          "", ""),
             DatabaseCall("log_event", <<>>, TRUE,
                          IF outcome.no_gl_available THEN "no_gl"
                          ELSE "success",
                          IF outcome.no_gl_available
                            THEN "Keine Gesellschafterliste verfuegbar"
                          ELSE "")>>
    ELSE <<DatabaseCall("log_event", <<>>, FALSE, "error",
                        "Unbekannter Fehler"),
           DatabaseCall("log_event", <<>>, FALSE, "error",
                        "Unbekannter Fehler")>>

\* the database calls run_downloads makes for the result of one download,
\* in their order
DownloadCalls(outcome) ==
    IF outcome.success
      THEN <<DatabaseCall("update_download_status", outcome.pdf_path, TRUE,
                          "", ""),
             DatabaseCall("log_event", <<>>, TRUE,
                          IF outcome.no_gl_available THEN "no_gl"
                          ELSE "success",
                          IF outcome.no_gl_available
                            THEN "Keine Gesellschafterliste verfuegbar"
                          ELSE "")>>
    ELSE <<DatabaseCall("log_event", <<>>, FALSE, "error",
                        "Unbekannter Fehler"),
           DatabaseCall("update_download_status", <<>>, FALSE, "", "")>>

ApplyCall(d, company_id, call) ==
    IF call.method = "update_download_status"
      THEN UpdateDownloadStatus(d, company_id, call.pdf_path, call.success)
    ELSE LogEvent(d, company_id, "download", call.status, call.message)

\* the first n of the calls, applied in order
RECURSIVE ApplyCalls(_, _, _, _)
ApplyCalls(d, company_id, calls, n) ==
    IF n = 0 THEN d
    ELSE ApplyCall(ApplyCalls(d, company_id, calls, n - 1), company_id,
                   calls[n])

\* export_qualified: the rows written, whose order (by name) is not modelled
ExportQualified(d) ==
    {[id |-> d.companies[i].id, name |-> d.companies[i].name,
      register_num |-> d.companies[i].register_num,
      natural_persons_count |-> d.companies[i].natural_persons_count,
      parsing_confidence |-> d.companies[i].parsing_confidence,
      shareholders |->
          SelectSeq(d.shareholders, LAMBDA s :
              s.company_id = i /\ s.is_natural_person)] :
        i \in {j \in DOMAIN d.companies :
                  d.companies[j].is_qualified = <<TRUE>>}}

\* run_parsing's own test of the counts
Qualifies(outcome) ==
    outcome.natural_persons_count <= 2 /\ outcome.legal_entities_count = 0

\* the attempts with the outcome of the latest one set
EndAttempt(attempts, outcome) ==
    [attempts EXCEPT ![Len(attempts)].outcome = outcome]

InitPipeline ==
    /\ ParseIdle /\ DatabaseNew /\ PipelineIdle
    /\ arg = <<>> /\ out = NotCalled

ImportFile(rows) ==
    /\ run.pc = "idle"
    /\ db' = ImportRows(db, rows)
    /\ out' = Returned(None)
    /\ history' = [history EXCEPT !.last = Step("import_file", 0)]
    /\ UNCHANGED <<parse_vars, arg, files, run, downloader, limiter_vars>>

\* a faulty variant of the entry of run_downloads: every company with a
\* register number is fetched
RunDownloadsAll(limit) ==
    /\ run.pc = "idle"
    /\ \E companies \in {ExecuteWithLimit(
                            SelectSeq(db.companies,
                                      LAMBDA c : c.register_num # ""),
                            limit)} :
          IF companies.raised \/ companies.rows = <<>>
            THEN /\ out' = Returned([raised |-> companies.raised])
                 /\ UNCHANGED <<run, downloader>>
          ELSE /\ out' = NotCalled
               /\ run' = [RunIdle EXCEPT !.pc = "start",
                                         !.pending = companies.rows,
                                         !.i = 1]
               /\ downloader' = NoDownloader
    /\ history' = [history EXCEPT !.last = Step("run_downloads", 0)]
    /\ UNCHANGED <<parse_vars, arg, db, files, limiter_vars>>

\* run_downloads(limit) up to the construction of the downloader
RunDownloads(limit) ==
    /\ run.pc = "idle"
    /\ \E companies \in {GetPendingDownloads(db, limit)} :
          IF companies.raised \/ companies.rows = <<>>
            THEN /\ out' = Returned([raised |-> companies.raised])
                 /\ UNCHANGED <<run, downloader>>
          ELSE /\ out' = NotCalled
               /\ run' = [RunIdle EXCEPT !.pc = "start",
                                         !.pending = companies.rows,
                                         !.i = 1]
               /\ downloader' = NoDownloader
    /\ history' = [history EXCEPT !.last = Step("run_downloads", 0)]
    /\ UNCHANGED <<parse_vars, arg, db, files, limiter_vars>>

\* downloader.start() returns: the driver is set
DownloaderStart ==
    /\ run.pc = "start"
    /\ downloader' = [driver |-> TRUE,
                      calls |-> Append(downloader.calls, "start")]
    /\ run' = [run EXCEPT !.pc = "download"]
    /\ history' = [history EXCEPT !.last = Step("start", 0)]
    /\ UNCHANGED <<parse_vars, arg, out, db, files, limiter_vars>>

\* a faulty variant of a raising start(): nothing stops the downloader
DownloaderStartRaisesNoFinally ==
    /\ run.pc = "start"
    /\ history.faults < MaxFaults
    /\ downloader' = [downloader EXCEPT !.calls = Append(@, "start")]
    /\ run' = RunIdle
    /\ out' = Returned([raised |-> TRUE])
    /\ history' = [history EXCEPT !.last = Step("start_raised", 0),
                                  !.faults = @ + 1]
    /\ UNCHANGED <<parse_vars, arg, db, files, limiter_vars>>

\* downloader.start() raises
DownloaderStartRaises ==
    /\ run.pc = "start"
    /\ history.faults < MaxFaults
    /\ downloader' = [downloader EXCEPT !.calls = Append(@, "start")]
    /\ run' = [run EXCEPT !.pc = "finally", !.raised = TRUE]
    /\ history' = [history EXCEPT !.last = Step("start_raised", 0),
                                  !.faults = @ + 1]
    /\ UNCHANGED <<parse_vars, arg, out, db, files, limiter_vars>>

\* downloader.download() returns a result for the next company; a
\* downloaded file is in the directory
Download(outcome) ==
    /\ run.pc = "download" /\ run.i <= Len(run.pending)
    /\ outcome \in DownloadResults(run.pending[run.i])
    /\ downloader' = [downloader EXCEPT !.calls = Append(@, "download")]
    /\ files' = IF outcome.pdf_path = <<>> THEN files
                ELSE files \cup {outcome.pdf_path[1]}
    /\ run' = [run EXCEPT !.pc = "record", !.result = outcome]
    /\ history' =
          [history EXCEPT
              !.last = Step("download", run.pending[run.i].id),
              !.attempts = Append(@, [company_id |-> run.pending[run.i].id,
                                      outcome |-> "returned"])]
    /\ UNCHANGED <<parse_vars, arg, out, db, limiter_vars>>

\* downloader.download() raises
DownloadRaises ==
    /\ run.pc = "download" /\ run.i <= Len(run.pending)
    /\ history.faults < MaxFaults
    /\ downloader' = [downloader EXCEPT !.calls = Append(@, "download")]
    /\ run' = [run EXCEPT !.pc = "finally", !.raised = TRUE]
    /\ history' =
          [history EXCEPT
              !.last = Step("download_raised", run.pending[run.i].id),
              !.attempts = Append(@, [company_id |-> run.pending[run.i].id,
                                      outcome |-> "raised"]),
              !.faults = @ + 1]
    /\ UNCHANGED <<parse_vars, arg, out, db, files, limiter_vars>>

\* the result is recorded in the database, and the loop goes on
RecordDownload ==
    /\ run.pc = "record"
    /\ db' = ApplyCalls(db, run.pending[run.i].id,
                        DownloadCalls(run.result), 2)
    /\ run' = [run EXCEPT !.pc = "download", !.i = @ + 1, !.result = <<>>]
    /\ history' =
          [history EXCEPT
              !.last = Step("recorded", run.pending[run.i].id),
              !.attempts = EndAttempt(@, "recorded")]
    /\ UNCHANGED <<parse_vars, arg, out, files, downloader, limiter_vars>>

\* the first or the second of the database calls raises
RecordDownloadRaises(fail_at) ==
    /\ run.pc = "record"
    /\ history.faults < MaxFaults
    /\ db' = ApplyCalls(db, run.pending[run.i].id,
                        DownloadCalls(run.result), fail_at - 1)
    /\ run' = [run EXCEPT !.pc = "finally", !.raised = TRUE]
    /\ history' =
          [history EXCEPT
              !.last = Step("record_raised", run.pending[run.i].id),
              !.attempts = EndAttempt(@, "raised"),
              !.faults = @ + 1]
    /\ UNCHANGED <<parse_vars, arg, out, files, downloader, limiter_vars>>

\* the loop over the companies is done
EndDownloads ==
    /\ run.pc = "download" /\ run.i > Len(run.pending)
    /\ run' = [run EXCEPT !.pc = "finally"]
    /\ history' = [history EXCEPT !.last = Step("end_downloads", 0)]
    /\ UNCHANGED <<parse_vars, arg, out, db, files, downloader, limiter_vars>>

\* finally: downloader.stop(); then the statistics are logged or the
\* exception goes on to the caller
DownloaderStop ==
    /\ run.pc = "finally"
    /\ downloader' = [driver |-> FALSE,
                      calls |-> Append(downloader.calls, "stop")]
    /\ out' = Returned([raised |-> run.raised])
    /\ run' = RunIdle
    /\ history' = [history EXCEPT !.last = Step("stop", 0)]
    /\ UNCHANGED <<parse_vars, arg, db, files, limiter_vars>>

\* run_parsing(limit) up to the loop
RunParsing(limit) ==
    /\ run.pc = "idle"
    /\ \E companies \in {GetPendingParsing(db, limit)} :
          IF companies.raised \/ companies.rows = <<>>
            THEN /\ out' = Returned([raised |-> companies.raised])
                 /\ UNCHANGED run
          ELSE /\ out' = NotCalled
               /\ run' = [RunIdle EXCEPT !.pc = "parse",
                                         !.pending = companies.rows,
                                         !.i = 1]
    /\ history' = [history EXCEPT !.last = Step("run_parsing", 0)]
    /\ UNCHANGED <<parse_vars, arg, db, files, downloader, limiter_vars>>

\* a faulty variant of the step for a missing file: the error is logged
ParseMissingLogged ==
    /\ run.pc = "parse" /\ run.i <= Len(run.pending)
    /\ run.pending[run.i].pdf_path[1] \notin files
    /\ db' = LogEvent(db, run.pending[run.i].id, "parse", "error",
                      "PDF nicht gefunden")
    /\ run' = [run EXCEPT !.i = @ + 1, !.error_count = @ + 1]
    /\ history' =
          [history EXCEPT
              !.last = Step("skipped", run.pending[run.i].id),
              !.skipped = @ \cup {run.pending[run.i].id}]
    /\ UNCHANGED <<parse_vars, arg, out, files, downloader, limiter_vars>>

\* the file of the next company is missing: it is counted and skipped
ParseMissing ==
    /\ run.pc = "parse" /\ run.i <= Len(run.pending)
    /\ run.pending[run.i].pdf_path[1] \notin files
    /\ run' = [run EXCEPT !.i = @ + 1, !.error_count = @ + 1]
    /\ history' =
          [history EXCEPT
              !.last = Step("skipped", run.pending[run.i].id),
              !.skipped = @ \cup {run.pending[run.i].id}]
    /\ UNCHANGED <<parse_vars, arg, out, db, files, downloader, limiter_vars>>

\* the file of the next company is parsed and the result recorded
ParseCompany(outcome) ==
    /\ run.pc = "parse" /\ run.i <= Len(run.pending)
    /\ run.pending[run.i].pdf_path[1] \in files
    /\ db' = LogEvent(
                UpdateParsingResult(db, run.pending[run.i].id,
                                    outcome.natural_persons_count,
                                    outcome.legal_entities_count,
                                    outcome.confidence, outcome.shareholders),
                run.pending[run.i].id, "parse", "success", "")
    /\ run' = [run EXCEPT !.i = @ + 1,
                          !.qualified_count =
                              IF Qualifies(outcome) THEN @ + 1 ELSE @]
    /\ history' =
          [history EXCEPT
              !.last = Step("parsed", run.pending[run.i].id)]
    /\ UNCHANGED <<parse_vars, arg, out, files, downloader, limiter_vars>>

\* update_parsing_result (fail_at 1) or the log_event after it (fail_at 2)
\* raises: the handler logs the error, or raises in its turn and ends
\* run_parsing
ParseCompanyRaises(outcome, fail_at, handler_raises) ==
    /\ run.pc = "parse" /\ run.i <= Len(run.pending)
    /\ run.pending[run.i].pdf_path[1] \in files
    /\ history.faults < MaxFaults
    /\ \E after \in {IF fail_at = 1 THEN db
                     ELSE UpdateParsingResult(
                            db, run.pending[run.i].id,
                            outcome.natural_persons_count,
                            outcome.legal_entities_count,
                            outcome.confidence, outcome.shareholders)} :
          IF handler_raises
            THEN /\ db' = after
                 /\ run' = RunIdle
                 /\ out' = Returned([raised |-> TRUE])
          ELSE /\ db' = LogEvent(after, run.pending[run.i].id, "parse",
                                 "error", "OperationalError")
               /\ run' = [run EXCEPT
                            !.i = @ + 1,
                            !.error_count = @ + 1,
                            !.qualified_count =
                                IF fail_at = 2 /\ Qualifies(outcome)
                                  THEN @ + 1 ELSE @]
               /\ UNCHANGED out
    /\ history' =
          [history EXCEPT
              !.last = Step("parse_raised", run.pending[run.i].id),
              !.faults = @ + 1]
    /\ UNCHANGED <<parse_vars, arg, files, downloader, limiter_vars>>

\* the loop over the companies is done: the counters are logged
EndParsing ==
    /\ run.pc = "parse" /\ run.i > Len(run.pending)
    /\ out' = Returned([raised |-> FALSE,
                        qualified_count |-> run.qualified_count,
                        error_count |-> run.error_count])
    /\ run' = RunIdle
    /\ history' = [history EXCEPT !.last = Step("end_parsing", 0)]
    /\ UNCHANGED <<parse_vars, arg, db, files, downloader, limiter_vars>>

\* export(): the qualified companies are written
Export ==
    /\ run.pc = "idle"
    /\ out' = Returned(ExportQualified(db))
    /\ history' = [history EXCEPT !.last = Step("export", 0)]
    /\ UNCHANGED <<parse_vars, arg, db, files, run, downloader, limiter_vars>>

\* outside the pipeline: a file of the PDF directory is removed
RemoveFile(path) ==
    /\ path \in files
    /\ files' = files \ {path}
    /\ history' = [history EXCEPT !.last = Step("remove_file", 0)]
    /\ UNCHANGED <<parse_vars, arg, out, db, run, downloader, limiter_vars>>

NextPipeline ==
    \/ \E rows \in ImportFiles : ImportFile(rows)
    \/ \E limit \in PipelineLimits : RunDownloads(limit)
    \/ DownloaderStart
    \/ DownloaderStartRaises
    \/ \E outcome \in DownloadResults(CompanyA) \cup DownloadResults(CompanyB) :
          Download(outcome)
    \/ DownloadRaises
    \/ RecordDownload
    \/ \E fail_at \in 1..2 : RecordDownloadRaises(fail_at)
    \/ EndDownloads
    \/ DownloaderStop
    \/ \E limit \in PipelineLimits : RunParsing(limit)
    \/ ParseMissing
    \/ \E outcome \in ParseResults : ParseCompany(outcome)
    \/ \E outcome \in ParseResults, fail_at \in 1..2,
          handler_raises \in BOOLEAN :
          ParseCompanyRaises(outcome, fail_at, handler_raises)
    \/ EndParsing
    \/ Export
    \/ \E path \in files : RemoveFile(path)

SpecPipeline == InitPipeline /\ [][NextPipeline]_vars

\* RateLimiter.wait() on one instance, called again and again while the
\* clock runs
StartTime == 5

MaxTime == 16

Rates == {1800, 1200}

InitLimiter ==
    /\ ParseIdle /\ DatabaseNew /\ arg = <<>> /\ out = NotCalled
    /\ files = {} /\ run = RunIdle /\ downloader = NoDownloader
    /\ history = NoHistory
    /\ now = StartTime
    /\ limiter \in {RateLimiter(calls_per_hour, last_call) :
                       calls_per_hour \in Rates,
                       last_call \in {0, StartTime - 1, StartTime + 1}}

\* the clock: a second passes
Tick ==
    /\ now < MaxTime
    /\ now' = now + 1
    /\ UNCHANGED <<parse_vars, arg, out, db, files, run, downloader, history,
                   limiter>>

\* a faulty variant of the entry of wait(): it never sleeps
WaitNoSleep(jitter) ==
    /\ limiter.pc = "idle"
    /\ limiter' = [limiter EXCEPT !.pc = "record", !.called = now,
                                  !.sleep_time = 0]
    /\ UNCHANGED <<parse_vars, arg, out, db, files, run, downloader, history,
                   now>>

\* wait() is called: elapsed is measured and, if it is too small, the
\* caller goes to sleep
Wait(jitter) ==
    /\ limiter.pc = "idle"
    /\ limiter' =
          IF now - limiter.last_call < limiter.min_interval
            THEN [limiter EXCEPT
                    !.pc = "sleep", !.called = now,
                    !.sleep_time = limiter.min_interval
                                     - (now - limiter.last_call) + jitter]
          ELSE [limiter EXCEPT !.pc = "record", !.called = now,
                               !.sleep_time = 0]
    /\ UNCHANGED <<parse_vars, arg, out, db, files, run, downloader, history,
                   now>>

\* time.sleep(sleep_time) returns, not before sleep_time has passed
WakeUp ==
    /\ limiter.pc = "sleep"
    /\ now >= limiter.called + limiter.sleep_time
    /\ limiter' = [limiter EXCEPT !.pc = "record"]
    /\ UNCHANGED <<parse_vars, arg, out, db, files, run, downloader, history,
                   now>>

\* self.last_call = time.time(), and wait() returns
Record ==
    /\ limiter.pc = "record"
    /\ limiter' = [limiter EXCEPT !.pc = "idle", !.last_call = now,
                                  !.recorded = Append(@, now)]
    /\ UNCHANGED <<parse_vars, arg, out, db, files, run, downloader, history,
                   now>>

NextLimiter ==
    \/ Tick
    \/ \E jitter \in MinJitter..MaxJitter : Wait(jitter)
    \/ WakeUp
    \/ Record

SpecLimiter == InitLimiter /\ [][NextLimiter]_vars

(***************************************************************************)
(* Properties of the methods                                               *)
(***************************************************************************)
\* name.lower().strip(), the key of an entry
Key(sh) == Strip(Lower(sh.name))

\* the strictly increasing maps of 1..m into 1..n
Increasing(m, n) ==
    {f \in [1..m -> 1..n] : \A a, b \in 1..m : a < b => f[a] < f[b]}

\* C8: the list _deduplicate returns is an order-preserving subsequence of
\* its argument, its keys are pairwise distinct, and every key of the
\* argument is in it with the very entry that first had the key.
C8_FirstOccurrenceWins ==
    out.done =>
        /\ \E f \in Increasing(Len(out.value), Len(arg)) :
              \A k \in DOMAIN out.value : out.value[k] = arg[f[k]]
        /\ \A a, b \in DOMAIN out.value :
              a # b => Key(out.value[a]) # Key(out.value[b])
        /\ \A i \in DOMAIN arg :
              (\A j \in 1..(i - 1) : Key(arg[j]) # Key(arg[i]))
                => \E k \in DOMAIN out.value : out.value[k] = arg[i]

\* C8 happens: a later entry with the key of the first one but another
\* share was dropped
C8_Witness ==
    /\ out.done
    /\ Len(out.value) < Len(arg)
    /\ \E i \in DOMAIN arg :
          /\ i > 1
          /\ Key(arg[i]) = Key(arg[1])
          /\ arg[i].name # arg[1].name
          /\ arg[i].share_percent # arg[1].share_percent
          /\ out.value[1] = arg[1]

\* letter case folded: lower case, with sharp s as ss
Fold(s) ==
    ConcatMap(LAMBDA i : IF s[i] = "ß" THEN <<"s", "s">> ELSE LowerChar(s[i]),
              1, Len(s))

\* the whitespace-separated tokens of s, counted at their last character
TokenCount(s) ==
    Cardinality({i \in 1..Len(s) :
        /\ s[i] \notin SpaceSet
        /\ (i = Len(s) \/ s[i + 1] \in SpaceSet)})

\* C9: _is_natural_person returns false exactly when the name contains a
\* legal-entity marker in any letter case, or has more than 5 tokens, or
\* contains a digit.
C9_ClassifierRule ==
    out.done =>
        ((out.value = FALSE) <=>
            \/ \E k \in DOMAIN LEGAL_ENTITY_MARKERS :
                  Contains(Fold(arg), Fold(LEGAL_ENTITY_MARKERS[k]))
            \/ TokenCount(arg) > 5
            \/ \E i \in DOMAIN arg : arg[i] \in DigitSet)

\* C9 happens: six tokens with no marker and no digit are a legal entity
C9_Witness ==
    /\ out.done
    /\ out.value = FALSE
    /\ TokenCount(arg) = 6
    /\ \A k \in DOMAIN LEGAL_ENTITY_MARKERS :
          ~Contains(Fold(arg), Fold(LEGAL_ENTITY_MARKERS[k]))
    /\ \A i \in DOMAIN arg : arg[i] \notin DigitSet

\* C10: the confidence _calculate_confidence returns lies in [0.0, 1.0].
C10_ConfidenceInUnitInterval ==
    out.done => 0 <= out.value /\ out.value <= 100

\* C10 happens: every factor contributes and the confidence is 1.0
C10_Witness ==
    /\ out.done
    /\ out.value = 100
    /\ Len(arg.shareholders) >= 2

(***************************************************************************)
(* Properties of parse()                                                   *)
(***************************************************************************)
AllTable(shs) == \A i \in DOMAIN shs : shs[i].source = SourceTable

AllRegex(shs) ==
    \A i \in DOMAIN shs :
        /\ Len(shs[i].source) > Len(SourceRegexPrefix)
        /\ SubSeq(shs[i].source, 1, Len(SourceRegexPrefix)) = SourceRegexPrefix
        /\ \E k \in DOMAIN PATTERN_NAMES :
              shs[i].source = SourceRegexPrefix \o PATTERN_NAMES[k]

\* the zero-value result: no shareholders, both counts 0, confidence 0.0
IsZeroResult(r) ==
    /\ r.shareholders = <<>>
    /\ r.natural_persons_count = 0
    /\ r.legal_entities_count = 0
    /\ r.confidence = 0

\* C1: whenever parse() returns, the shareholders of its result are all
\* table-sourced or all regex-sourced, never a mix; and when the tables
\* of the pages gave at least one shareholder, none is regex-sourced.
C1_TableSuppressesRegex ==
    [][pc' = "done" =>
         /\ AllTable(result'.shareholders) \/ AllRegex(result'.shareholders)
         /\ (pc = "tables" /\ shareholders # <<>>
               => AllTable(result'.shareholders))]_vars

\* C1 happens: tables gave the shareholders of a result although the text
\* holds names the patterns match
C1_Witness ==
    /\ pc = "done" /\ caught = "none"
    /\ result.shareholders # <<>>
    /\ AllTable(result.shareholders)
    /\ Contains(collab_calls, <<"extract_tables">>)
    /\ ParseWithPatterns(full_text) # <<>>

\* C2: parse() of a path that does not exist returns the zero-value result,
\* has raised nothing and has not called the collaborator.
C2_MissingFileIsZeroResult ==
    pc = "done" /\ ~path_exists =>
        /\ IsZeroResult(result)
        /\ caught = "none"
        /\ collab_calls = <<>>

\* C2 happens: a call with a missing path has returned
C2_Witness ==
    pc = "done" /\ ~path_exists /\ IsZeroResult(result)

\* C3: when the collaborator raises during open, text extraction or table
\* extraction, parse() returns the zero-value result; shareholders taken
\* from earlier tables are not in it.
C3_CollaboratorFailureIsZeroResult ==
    caught = "collaborator" => pc = "done" /\ IsZeroResult(result)

\* C3 happens: the collaborator raised after tables had given shareholders
C3_Witness ==
    /\ caught = "collaborator" /\ pc = "done"
    /\ shareholders # <<>>
    /\ IsZeroResult(result)

\* C4 (as stated): _parse_share never raises, so no parse() ends in the
\* except branch because of a share cell.
C4_ShareNeverRaises == caught # "ValueError"

\* C5: in every result the two counts are the numbers of shareholders
\* with is_natural_person true and false, they add up to the number of
\* shareholders, and each flag is the classifier's verdict on the name.
C5_CountsConsistent ==
    pc = "done" =>
        /\ result.natural_persons_count =
             Cardinality({i \in DOMAIN result.shareholders :
                            result.shareholders[i].is_natural_person})
        /\ result.legal_entities_count =
             Cardinality({i \in DOMAIN result.shareholders :
                            ~result.shareholders[i].is_natural_person})
        /\ result.natural_persons_count + result.legal_entities_count
             = Len(result.shareholders)
        /\ \A i \in DOMAIN result.shareholders :
              result.shareholders[i].is_natural_person
                = IsNaturalPerson(result.shareholders[i].name)

\* C5 happens: a result with a natural person and a legal entity, after a
\* duplicate was removed
C5_Witness ==
    /\ pc = "done"
    /\ result.natural_persons_count >= 1
    /\ result.legal_entities_count >= 1
    /\ Len(result.shareholders) < Len(shareholders)

\* C6 (as stated): every shareholder of a result has a name of at least 3
\* characters that contains no non-person marker, whatever the letter case.
C6_NamesValid ==
    pc = "done" =>
        \A i \in DOMAIN result.shareholders :
            /\ result.shareholders[i].name # <<>>
            /\ Len(result.shareholders[i].name) >= 3
            /\ \A k \in DOMAIN NON_PERSON_MARKERS :
                  ~Contains(Lower(result.shareholders[i].name),
                            Lower(NON_PERSON_MARKERS[k]))

\* C7 (as stated): every share_percent of a result is unset or in [0, 100].
C7_ShareInPercentRange ==
    pc = "done" =>
        \A i \in DOMAIN result.shareholders :
            \/ result.shareholders[i].share_percent = None
            \/ /\ result.shareholders[i].share_percent.kind = "float"
               /\ result.shareholders[i].share_percent.num >= 0
               /\ result.shareholders[i].share_percent.num
                    <= 100 * result.shareholders[i].share_percent.den

\* C7 (amended): every share_percent of a result is unset or a number that
\* is not negative: the percentage as written, or the amount in EUR.
C7_ShareNotNegative ==
    pc = "done" =>
        \A i \in DOMAIN result.shareholders :
            \/ result.shareholders[i].share_percent = None
            \/ /\ result.shareholders[i].share_percent.kind = "float"
               /\ result.shareholders[i].share_percent.num >= 0
               /\ result.shareholders[i].share_percent.den >= 1

\* C7 happens: a result holds a share above 100
C7_Witness ==
    /\ pc = "done"
    /\ \E i \in DOMAIN result.shareholders :
          /\ result.shareholders[i].share_percent.kind = "float"
          /\ result.shareholders[i].share_percent.num
               > 100 * result.shareholders[i].share_percent.den

\* the title word, in lower case
TitleWord == <<"g", "e", "s", "e", "l", "l", "s", "c", "h", "a", "f", "t", "e", "r", "l", "i", "s", "t", "e">>

\* C11: with no shareholder the confidence is exactly 0.0 whatever the
\* text holds, and the result is well-formed: no shareholders, both counts
\* 0, the text as raw_text.
C11_EmptyListZeroConfidence ==
    out.done /\ arg.shareholders = <<>> =>
        /\ out.value.confidence = 0
        /\ out.value.shareholders = <<>>
        /\ out.value.natural_persons_count = 0
        /\ out.value.legal_entities_count = 0
        /\ out.value.raw_text = arg.text

\* C11 happens: no shareholder, and a text with a birthdate marker and the
\* title word
C11_Witness ==
    /\ out.done
    /\ arg.shareholders = <<>>
    /\ Contains(arg.text, <<"*", "0", "2", ".", "0", "3", ".", "1", "9", "7", "5">>)
    /\ Contains(Lower(arg.text), TitleWord)
    /\ out.value.confidence = 0

\* a '*', any whitespace, then a date DD.MM.YYYY somewhere in the text
HasBirthMarker(text) ==
    \E i, j \in DOMAIN text :
        /\ text[i] = "*"
        /\ i < j /\ j + 9 <= Len(text)
        /\ \A k \in (i + 1)..(j - 1) : text[k] \in SpaceSet
        /\ \A k \in 0..9 :
              IF k \in {2, 5} THEN text[j + k] = "."
              ELSE text[j + k] \in DigitSet

\* the sum of the five factors for the shareholders of a result, counted
\* as count, and a text
FactorSum(shs, count, text) ==
    (IF \E i \in DOMAIN shs : shs[i].source = SourceTable THEN 30
     ELSE IF \E i \in DOMAIN shs :
               Contains(shs[i].source, <<"r", "e", "g", "e", "x">>) THEN 15
     ELSE 0)
    + (IF \E i \in DOMAIN shs : shs[i].share_percent # None THEN 20 ELSE 0)
    + (IF count \in 1..10 THEN 20 ELSE IF count \in 11..20 THEN 10 ELSE 0)
    + (IF HasBirthMarker(text) THEN 15 ELSE 0)
    + (IF Contains(Lower(text), TitleWord) THEN 15 ELSE 0)

\* C12: for a list that is not empty the confidence of the result is
\* min(1.0, S), S the sum of 0.30 for a table source or else 0.15 for a
\* regex source, 0.20 for a share, 0.20 for 1..10 or else 0.10 for 11..20
\* shareholders, 0.15 for a birthdate marker and 0.15 for the title word;
\* the shareholders counted are those left after deduplication.
C12_ConfidenceFormula ==
    out.done /\ arg.shareholders # <<>> =>
        out.value.confidence =
            IF FactorSum(out.value.shareholders,
                         Cardinality({Key(arg.shareholders[i]) :
                                        i \in DOMAIN arg.shareholders}),
                         arg.text) > 100
              THEN 100
            ELSE FactorSum(out.value.shareholders,
                           Cardinality({Key(arg.shareholders[i]) :
                                          i \in DOMAIN arg.shareholders}),
                           arg.text)

\* C12 happens: eleven entries, ten after deduplication, and every factor
\* contributes
C12_Witness ==
    /\ out.done
    /\ Len(arg.shareholders) = 11
    /\ Len(out.value.shareholders) = 10
    /\ out.value.confidence = 100

\* the entries at the positions in S given the table source, or a share
WithTableSource(shs, S) ==
    [i \in DOMAIN shs |->
        IF i \in S THEN [shs[i] EXCEPT !.source = SourceTable] ELSE shs[i]]

WithShare(shs, S) ==
    [i \in DOMAIN shs |->
        IF i \in S THEN [shs[i] EXCEPT !.share_percent = Float(<<"5", "0">>)]
        ELSE shs[i]]

\* the first entry, the entries after it, or all of them
Positions(shs) == {{1}, DOMAIN shs \ {1}, DOMAIN shs} \ {{}}

\* C13: with the same text, a list with only regex sources scores no
\* higher than the list that differs from it only in having table sources,
\* and a list without shares no higher than the list that differs from it
\* only in having shares.
C13_ConfidenceMonotone ==
    out.done /\ arg.shareholders # <<>> =>
        /\ (\A i \in DOMAIN arg.shareholders :
               Contains(arg.shareholders[i].source, SourceRegexPrefix))
             => \A S \in Positions(arg.shareholders) :
                   CalculateConfidence(WithTableSource(arg.shareholders, S),
                                       arg.text) >= out.value
        /\ (\A i \in DOMAIN arg.shareholders :
               arg.shareholders[i].share_percent = None)
             => \A S \in Positions(arg.shareholders) :
                   CalculateConfidence(WithShare(arg.shareholders, S),
                                       arg.text) >= out.value

\* C13 happens: a list with only regex sources and no share, scoring 0.15
\* less than with a table source and 0.20 less than with a share
C13_Witness ==
    /\ out.done
    /\ Len(arg.shareholders) >= 2
    /\ \A i \in DOMAIN arg.shareholders :
          /\ Contains(arg.shareholders[i].source, SourceRegexPrefix)
          /\ arg.shareholders[i].share_percent = None
    /\ CalculateConfidence(WithTableSource(arg.shareholders, {1}), arg.text)
         = out.value + 15
    /\ CalculateConfidence(WithShare(arg.shareholders, {2}), arg.text)
         = out.value + 20

\* C14 (as stated): _parse_share applies the percent rule first and returns
\* the number before % with the comma read as decimal point; otherwise, for
\* EUR or the euro sign, the amount with the dots removed and the comma
\* read as decimal point ("12.500 EUR" gives 12500, "25.000,00 EUR" gives
\* 25000); otherwise no value.  It returns in every case.
C14_ShareRules ==
    out.done =>
        /\ out.value.kind \in {"float", "None"}
        /\ IF Search(PercentPattern, arg) # NoMatch
             THEN out.value = Float(PercentNumber(arg,
                                                  Search(PercentPattern, arg)))
           ELSE IF Search(EurPattern, arg) # NoMatch
             THEN out.value = Float(EurNumber(arg, Search(EurPattern, arg)))
           ELSE out.value = None
        /\ (arg = <<"1", "2", ".", "5", "0", "0", " ", "E", "U", "R">>
              => out.value = [kind |-> "float", num |-> 12500, den |-> 1])
        /\ (arg = <<"2", "5", ".", "0", "0", "0", ",", "0", "0", " ", "E", "U", "R">>
              => out.value = [kind |-> "float", num |-> 25000, den |-> 1])
        /\ (arg = <<"7", " ", "E", "U", "R", " ", "1", "2", " ", "%">>
              => out.value = [kind |-> "float", num |-> 12, den |-> 1])

\* C15 (as stated): for the text of the two lines
\* "1. Max Mustermann, geb. 01.01.1980" and "2. Alpha Holding GmbH" and no
\* tables, parse() gives exactly one natural person, Max Mustermann, and
\* one legal entity, Alpha Holding GmbH.
C15_ScenarioTwo ==
    /\ pc = "done"
    /\ full_text = <<"1", ".", " ", "M", "a", "x", " ", "M", "u", "s", "t", "e", "r", "m", "a", "n", "n", ",", " ", "g", "e", "b", ".", " ", "0", "1", ".", "0", "1", ".", "1", "9", "8", "0">> \o <<"\n">>
                   \o <<"2", ".", " ", "A", "l", "p", "h", "a", " ", "H", "o", "l", "d", "i", "n", "g", " ", "G", "m", "b", "H">> \o <<"\n">>
    => /\ result.natural_persons_count = 1
       /\ result.legal_entities_count = 1
       /\ \E i \in DOMAIN result.shareholders :
             /\ result.shareholders[i].name = <<"M", "a", "x", " ", "M", "u", "s", "t", "e", "r", "m", "a", "n", "n">>
             /\ result.shareholders[i].is_natural_person
       /\ \E i \in DOMAIN result.shareholders :
             /\ result.shareholders[i].name = <<"A", "l", "p", "h", "a", " ", "H", "o", "l", "d", "i", "n", "g", " ", "G", "m", "b", "H">>
             /\ ~result.shareholders[i].is_natural_person

\* C16: in any sequence of parse() calls on one parser, a call on a document
\* returns the ParsingResult that the first call on that document returned,
\* whatever was parsed in between.
C16_SameDocumentSameResult ==
    (pc = "done" /\ out[arg] # <<>>) => result = out[arg][1]

\* a document is parsed again after another document was parsed, and both
\* gave shareholders
C16_Witness ==
    /\ pc = "done" /\ out[arg] # <<>>
    /\ result.shareholders # <<>>
    /\ \E d \in DOMAIN Documents :
          /\ d # arg /\ out[d] # <<>>
          /\ out[d][1].shareholders # <<>>
          /\ out[d][1] # result
\* C17: when the collaborator raises part-way through a document, the
\* raw_text of the result is the text of the pages read before the failure,
\* and is empty only if no text had been extracted.
C17_RawTextIsExtractedText ==
    (pc = "done" /\ caught = "collaborator") =>
        result.raw_text = Join(text_buf, <<"\n">>)

\* C17 as the code has it: the raw_text of the result is the text of all
\* pages if the collaborator raised in extract_tables(), and empty if it
\* raised in open() or in extract_text(), whatever pages were read before.
C17_RawTextAllOrNothing ==
    (pc = "done" /\ caught = "collaborator") =>
        result.raw_text =
            IF collab_calls[Len(collab_calls)] = "extract_tables"
              THEN Join(text_buf, <<"\n">>)
            ELSE <<>>

\* extract_text() raised on the second page after the first page gave text
C17_Witness ==
    /\ pc = "done" /\ caught = "collaborator"
    /\ collab_calls = <<"open", "extract_text", "extract_text">>
    /\ text_buf = <<TextList>>
    /\ result.raw_text = <<>>
\* name starts with no whitespace, has no two whitespace characters in a
\* row and does not end with a comma
NoLeadingSpaceNoRunNoComma(name) ==
    /\ name # <<>> => name[1] \notin SpaceSet /\ name[Len(name)] # ","
    /\ \A i \in 1..(Len(name) - 1) :
          ~(name[i] \in SpaceSet /\ name[i + 1] \in SpaceSet)

\* C18: the name of every Shareholder of a result has no leading or trailing
\* whitespace, no run of two or more whitespace characters, and does not end
\* with a comma.
C18_NamesNormalised ==
    pc = "done" =>
        \A i \in DOMAIN result.shareholders :
            \A name \in {result.shareholders[i].name} :
                /\ NoLeadingSpaceNoRunNoComma(name)
                /\ name # <<>> => name[Len(name)] \notin SpaceSet

\* C18 as the code has it: the name has no leading whitespace, no run of
\* two or more whitespace characters and no comma at its end; it ends with
\* one space when the text had whitespace before its trailing commas.
C18_NamesCollapsed ==
    pc = "done" =>
        \A i \in DOMAIN result.shareholders :
            NoLeadingSpaceNoRunNoComma(result.shareholders[i].name)

\* a result with a name that ends with a space
C18_Witness ==
    /\ pc = "done"
    /\ \E i \in DOMAIN result.shareholders :
          \E name \in {result.shareholders[i].name} :
              name # <<>> /\ name[Len(name)] = " "
\* C19: insert_company for a company whose (name, register_num) pair is
\* already in the table adds no row and returns the id of the existing row,
\* whatever inserts, log events and parsing results came before.
C19_DuplicateReturnsExistingId ==
    [][(arg'.op = "insert_company"
          /\ SelectCompanyId(db, arg'.company) # 0) =>
            /\ db'.companies = db.companies
            /\ out' = Returned(SelectCompanyId(db, arg'.company))]_vars
\* C20: update_parsing_result sets pdf_parsed of the company's row, stores
\* the given counts and confidence there, sets is_qualified to true exactly
\* when natural_count <= 2 and legal_count = 0, leaves the other rows as
\* they are, and adds one shareholders row for each given shareholder.
C20_UpdateParsingResult ==
    [][arg'.op = "update_parsing_result" =>
         \A in \in {arg'.in} :
            /\ DOMAIN db'.companies = DOMAIN db.companies
            /\ \A i \in DOMAIN db.companies :
                  IF i # arg'.company_id
                    THEN db'.companies[i] = db.companies[i]
                  ELSE db'.companies[i] =
                         [db.companies[i] EXCEPT
                            !.pdf_parsed = TRUE,
                            !.natural_persons_count = <<in.natural_count>>,
                            !.legal_entities_count = <<in.legal_count>>,
                            !.parsing_confidence = <<in.confidence>>,
                            !.is_qualified =
                                <<(in.natural_count <= 2
                                     /\ in.legal_count = 0)>>]
            /\ Len(db'.shareholders) =
                  Len(db.shareholders) + Len(in.shareholders)
            /\ SubSeq(db'.shareholders, 1, Len(db.shareholders)) =
                  db.shareholders
            /\ \A k \in DOMAIN in.shareholders :
                  \A row \in {db'.shareholders[Len(db.shareholders) + k]} :
                     /\ row.company_id = arg'.company_id
                     /\ row.name = in.shareholders[k].name
                     /\ row.share_percent = in.shareholders[k].share_percent
                     /\ row.is_natural_person =
                           in.shareholders[k].is_natural_person
                     /\ row.source = in.shareholders[k].source]_vars

\* a result of two natural persons was stored for the second company, which
\* is qualified
C20_Witness ==
    /\ out.done /\ arg.op = "update_parsing_result"
    /\ arg.company_id = 2 /\ Len(db.companies) >= 2
    /\ arg.in.natural_count = 2 /\ arg.in.legal_count = 0
    /\ db.companies[2].pdf_parsed
    /\ db.companies[2].is_qualified = <<TRUE>>
    /\ db.companies[1].is_qualified # <<TRUE>>
    /\ Len(db.shareholders) = 2
\* the columns whose header cell, in lower case, contains one of the keywords
ColumnsWith(header_row, keywords) ==
    {i \in DOMAIN header_row :
        \E k \in DOMAIN keywords :
            Contains(Lower(header_row[i]), keywords[k])}

\* the first column of a set of columns, 0 for no column
FirstOf(columns) == IF columns = {} THEN 0 ELSE Least(columns)

\* the names _parse_table returned
ReturnedNames == [i \in DOMAIN out.value.shs |-> out.value.shs[i].name]

\* the names of the data row in column col, none for column 0 or no data row
NamesInColumn(col) ==
    IF Len(arg) < 2 \/ col = 0 THEN <<>> ELSE <<arg[2][col]>>

\* the header row of the table, none for the empty table
HeaderRow == IF arg = <<>> THEN <<>> ELSE arg[1]

\* C23: the name column is the first header cell with a name keyword; with
\* no such cell, the first column whose header contains none of nr, lfd,
\* nummer; the list is empty for a table of fewer than 2 rows or without
\* such a column.
C23_NameColumn ==
    out.done =>
        ReturnedNames = NamesInColumn(
            IF ColumnsWith(HeaderRow, NAME_HEADERS) # {}
              THEN FirstOf(ColumnsWith(HeaderRow, NAME_HEADERS))
            ELSE FirstOf(DOMAIN HeaderRow
                           \ ColumnsWith(HeaderRow, INDEX_HEADERS)))

\* C23 as the code has it: the fallback takes the first column whose header
\* cell is not empty and contains none of nr, lfd, nummer.
C23_NameColumnNotEmpty ==
    out.done =>
        ReturnedNames = NamesInColumn(
            IF ColumnsWith(HeaderRow, NAME_HEADERS) # {}
              THEN FirstOf(ColumnsWith(HeaderRow, NAME_HEADERS))
            ELSE FirstOf({i \in DOMAIN HeaderRow : HeaderRow[i] # <<>>}
                           \ ColumnsWith(HeaderRow, INDEX_HEADERS)))

\* the first header cell is missing, no header has a keyword, and the name
\* of the second column was returned
C23_Witness ==
    /\ out.done /\ Len(arg) = 2 /\ Len(HeaderRow) = 2
    /\ HeaderRow[1] = <<>>
    /\ ColumnsWith(HeaderRow, NAME_HEADERS) = {}
    /\ ReturnedNames = <<arg[2][2]>>
\* C25: _sanitize_filename raises for a name that is empty, only whitespace
\* or contains "..", "/" or a backslash; a name it returns is not empty, is
\* made of word characters only, has at most 200 characters before a
\* "file_" prefix, is no reserved device name and resolves inside the
\* download directory.
C25_SanitizedOrRaised ==
    out.done =>
        /\ (arg = <<>> \/ Strip(arg) = <<>> \/ Contains(arg, <<".", ".">>)
              \/ Contains(arg, <<"/">>) \/ Contains(arg, <<"\\">>))
             => out.value.raised
        /\ ~out.value.raised =>
             \A name \in {out.value.value} :
                /\ name # <<>>
                /\ \A i \in DOMAIN name : name[i] \in WordSet
                /\ \/ Len(name) <= MaxSafeLength
                   \/ /\ SubSeq(name, 1, 5) = <<"f", "i", "l", "e", "_">>
                      /\ Len(name) - 5 <= MaxSafeLength
                /\ Upper(name) \notin WINDOWS_RESERVED_NAMES
                /\ ResolvesInside(name)

\* a reserved device name in lower case between spaces came back with the
\* prefix
C25_Witness ==
    /\ out.done /\ arg = <<" ", "a", "u", "x", " ">>
    /\ out.value = [raised |-> FALSE, value |-> <<"f", "i", "l", "e", "_", "a", "u", "x">>]
\* the ids of the companies that are downloaded, not parsed and have a path
PendingIds ==
    {i \in DOMAIN db.companies :
        /\ db.companies[i].dk_downloaded
        /\ ~db.companies[i].pdf_parsed
        /\ db.companies[i].pdf_path # <<>>}

\* C22: get_pending_parsing returns exactly the companies that are
\* downloaded, not parsed and have a pdf_path, by ascending id, cut to the
\* first limit of them for a limit in 1..10000; any other limit that is not
\* None raises and nothing is returned.
C22_PendingParsing ==
    (out.done /\ arg.op = "get_pending_parsing") =>
        \A rows \in {out.value.rows} :
            IF arg.limit.kind = "None"
                 \/ (arg.limit.kind = "int" /\ arg.limit.n \in 1..10000)
              THEN /\ ~out.value.raised
                   /\ Len(rows) = IF arg.limit.kind = "None"
                                     THEN Cardinality(PendingIds)
                                   ELSE Min(arg.limit.n,
                                            Cardinality(PendingIds))
                   /\ \A j \in DOMAIN rows :
                         /\ rows[j].id \in PendingIds
                         /\ rows[j] = db.companies[rows[j].id]
                         /\ j > 1 => rows[j - 1].id < rows[j].id
                   /\ \A i \in PendingIds :
                         \/ \E j \in DOMAIN rows : rows[j].id = i
                         \/ \A j \in DOMAIN rows : rows[j].id < i
            ELSE out.value.raised /\ rows = <<>>

\* of two pending companies the limit 1 left the first
C22_Witness ==
    /\ out.done /\ arg.op = "get_pending_parsing"
    /\ arg.limit = IntLimit(1)
    /\ PendingIds = {1, 2}
    /\ out.value.rows = <<db.companies[1]>>
\* C24: wait() goes on to record only when min_interval has passed since
\* last_call; it sleeps, for min_interval - elapsed plus a jitter of 1 to 5
\* seconds, exactly when it is called earlier than that; the timestamp it
\* records is the current time and becomes last_call; and two consecutive
\* recorded timestamps are at least min_interval apart.
C24_RateLimit ==
    /\ limiter.pc = "record" =>
          now - limiter.last_call >= limiter.min_interval
    /\ limiter.pc \in {"sleep", "record"} =>
          IF limiter.called - limiter.last_call < limiter.min_interval
            THEN limiter.sleep_time
                   - (limiter.min_interval
                        - (limiter.called - limiter.last_call))
                   \in 1..5
          ELSE limiter.sleep_time = 0
    /\ limiter.pc = "sleep" => limiter.sleep_time > 0
    /\ limiter.recorded # <<>> =>
          /\ limiter.last_call = limiter.recorded[Len(limiter.recorded)]
          /\ limiter.last_call <= now
    /\ \A k \in 2..Len(limiter.recorded) :
          limiter.recorded[k] - limiter.recorded[k - 1]
             >= limiter.min_interval

\* a second wait() came early, slept, and is about to record its timestamp
C24_Witness ==
    /\ limiter.pc = "record"
    /\ limiter.recorded # <<>>
    /\ limiter.sleep_time > 0
    /\ limiter.called - limiter.last_call < limiter.min_interval

\* how often run_downloads has called the method on its downloader
Calls(method) == Len(SelectSeq(downloader.calls, LAMBDA c : c = method))

\* C26: a run_downloads that found a pending company calls start() once,
\* before the first download(), and stop() exactly once, as the last call
\* before it returns or lets an exception out; stop() is not called before.
C26_StartOnceStopOnce ==
    /\ run.pc = "start" => downloader.calls = <<>>
    /\ run.pc \in {"download", "record", "finally"} =>
          /\ downloader.calls[1] = "start"
          /\ Calls("start") = 1
          /\ Calls("stop") = 0
    /\ (run.pc \in {"idle", "parse"} /\ downloader.calls # <<>>) =>
          /\ downloader.calls[1] = "start"
          /\ Calls("start") = 1
          /\ downloader.calls[Len(downloader.calls)] = "stop"
          /\ Calls("stop") = 1

\* run_downloads ended with an exception out of start()
C26_Witness ==
    /\ run.pc = "idle"
    /\ history.last.step = "stop"
    /\ out.value.raised
    /\ downloader.calls = <<"start", "stop">>
\* how the calls of download() for the company ended, in their order
AttemptsOn(company_id) ==
    SelectSeq(history.attempts, LAMBDA a : a.company_id = company_id)

\* C21, as stated: over any sequence of run_downloads calls no company is
\* passed to downloader.download more than once.
C21_DownloadedOnce ==
    \A id \in DOMAIN db.companies : Len(AttemptsOn(id)) <= 1

\* C21, amended: a company whose result was recorded, whatever the result,
\* is dk_downloaded, and a company is passed to download() again only when
\* every earlier call for it ended with an exception, raised by download()
\* or by a database call of run_downloads.
C21_DownloadedOncePerRecordedResult ==
    \A id \in DOMAIN db.companies :
        /\ \A k \in 1..(Len(AttemptsOn(id)) - 1) :
              AttemptsOn(id)[k].outcome = "raised"
        /\ (\E k \in DOMAIN AttemptsOn(id) :
               AttemptsOn(id)[k].outcome = "recorded") =>
              db.companies[id].dk_downloaded

\* a download that raised, then one that failed and was recorded
C21_Witness ==
    \E id \in DOMAIN db.companies :
        /\ Len(AttemptsOn(id)) = 2
        /\ AttemptsOn(id)[1].outcome = "raised"
        /\ AttemptsOn(id)[2].outcome = "recorded"
        /\ db.companies[id].dk_downloaded
        /\ db.companies[id].pdf_path = <<>>
        /\ \E k \in DOMAIN db.pipeline_log :
              /\ db.pipeline_log[k].company_id = id
              /\ db.pipeline_log[k].status = "error"
\* no step takes a flag back or changes the path of a downloaded company
FlagsMonotone ==
    \A i \in DOMAIN db.companies :
        /\ i \in DOMAIN db'.companies
        /\ db.companies[i].dk_downloaded => db'.companies[i].dk_downloaded
        /\ db.companies[i].pdf_parsed => db'.companies[i].pdf_parsed
        /\ db.companies[i].dk_downloaded =>
              db'.companies[i].pdf_path = db.companies[i].pdf_path

\* a parsed company is downloaded and has a path
FlagsOrdered ==
    \A i \in DOMAIN db.companies :
        db.companies[i].pdf_parsed =>
            /\ db.companies[i].dk_downloaded
            /\ db.companies[i].pdf_path # <<>>

\* C27: under any sequence of import_file, run_downloads and run_parsing,
\* dk_downloaded and pdf_parsed never go from TRUE to FALSE, pdf_path does
\* not change once dk_downloaded is TRUE, and a company with pdf_parsed TRUE
\* has dk_downloaded TRUE and a pdf_path.
C27_FlagsMonotoneOrdered == [](FlagsOrdered) /\ [][FlagsMonotone]_vars

\* a parsed company, looked at again by a later run_downloads
C27_Witness ==
    /\ history.last.step = "run_downloads"
    /\ \E i \in DOMAIN db.companies :
          /\ db.companies[i].pdf_parsed
          /\ db.companies[i].dk_downloaded
          /\ db.companies[i].pdf_path # <<>>
\* the rows of shareholders with the company_id
ShareholderRowsOf(company_id) ==
    SelectSeq(db.shareholders, LAMBDA s : s.company_id = company_id)

ParsedNoShareholders ==
    /\ run.pc = "parse"
    /\ history'.last.step = "parsed"
    /\ db'.shareholders = db.shareholders

\* C29: when run_parsing parses an existing file and parse() returns no
\* shareholder, the company gets pdf_parsed TRUE, the counts 0 and 0 and
\* is_qualified TRUE, qualified_count goes up by one, and export_qualified
\* writes the company.
C29_EmptyResultQualifies ==
    [][ParsedNoShareholders =>
          \A id \in {history'.last.company_id} :
              /\ ~db.companies[id].pdf_parsed
              /\ db.companies[id].pdf_path[1] \in files
              /\ db'.companies[id].pdf_parsed
              /\ db'.companies[id].natural_persons_count = <<0>>
              /\ db'.companies[id].legal_entities_count = <<0>>
              /\ db'.companies[id].parsing_confidence = <<0>>
              /\ db'.companies[id].is_qualified = <<TRUE>>
              /\ run'.qualified_count = run.qualified_count + 1
              /\ \E row \in ExportQualified(db') : row.id = id]_vars

\* export() after a run_parsing that counted a company without shareholders
C29_Witness ==
    /\ history.last.step = "export"
    /\ \E row \in out.value :
          /\ row.natural_persons_count = <<0>>
          /\ row.shareholders = <<>>
          /\ db.companies[row.id].pdf_parsed
          /\ db.companies[row.id].is_qualified = <<TRUE>>
\* run_parsing meets a company whose file is missing
MeetsMissingFile ==
    /\ run.pc = "parse"
    /\ history'.last.step = "skipped"

\* the skipped companies whose file is still missing
StillMissing ==
    {id \in history.skipped : db.companies[id].pdf_path[1] \notin files}

\* the step of run_parsing for a missing file: the database is as before
\* and the loop is at the next company
MissingFileSkipped ==
    [][MeetsMissingFile =>
          /\ run.pending[run.i].pdf_path[1] \notin files
          /\ history'.last.company_id = run.pending[run.i].id
          /\ db' = db
          /\ run'.pc = "parse"
          /\ run'.pending = run.pending
          /\ run'.i = run.i + 1]_vars

\* C30, as stated: the row, the shareholders and the log are left as they
\* are, run_parsing goes on with the next company, and every later
\* get_pending_parsing call returns the company.
C30_SkippedReturnedByEveryCall ==
    /\ MissingFileSkipped
    /\ [](history.last.step = "run_parsing" =>
            \A id \in StillMissing :
                \/ out.done /\ out.value.raised
                \/ \E k \in DOMAIN run.pending : run.pending[k].id = id)

\* C30, amended: the row, the shareholders and the log are left as they
\* are and run_parsing goes on with the next company; while the file is
\* missing the company stays pending, and a later get_pending_parsing call
\* returns it if it has no limit or fewer pending companies of smaller id
\* than its limit.
C30_SkippedStaysPending ==
    /\ MissingFileSkipped
    /\ [](\A id \in StillMissing :
            /\ id \in PendingIds
            /\ \E k \in DOMAIN GetPendingParsing(db, NoLimit).rows :
                  GetPendingParsing(db, NoLimit).rows[k].id = id
            /\ \A n \in 1..Len(db.companies) :
                  Cardinality({j \in PendingIds : j < id}) < n =>
                      \E k \in DOMAIN GetPendingParsing(db, IntLimit(n)).rows :
                          GetPendingParsing(db, IntLimit(n)).rows[k].id = id)

\* a later run_parsing without limit fetched a company skipped before
C30_Witness ==
    /\ history.last.step = "run_parsing"
    /\ run.pc = "parse"
    /\ \E id \in StillMissing :
          /\ \E k \in DOMAIN run.pending : run.pending[k].id = id
          /\ ~db.companies[id].pdf_parsed
          /\ ShareholderRowsOf(id) = <<>>
====
